---- MODULE Spec2Model ----
(***************************************************************************)
(* Election resolution (voting/methods/*.py) over the ballot value types   *)
(* (voting/ballots/*.py).  A resolution is one call of resolve_<method> on *)
(* a candidate list and a ballot list with an injected tie-break function. *)
(* Candidate ids are the integers 1..MaxIds; the candidate list is a       *)
(* prefix <<1, .., n>> of them, so that for n < MaxIds the other ids are   *)
(* ids a ballot may name although the election does not know them.         *)
(***************************************************************************)
EXTENDS Integers, Sequences, FiniteSets, TLC

VARIABLES
    method,          \* which resolve_<method> is being called
    candidates,      \* argument: sequence of candidate ids
    ballots,         \* argument: sequence of ballots of the matching variant
    pc,              \* "call" | "irv_loop" | "returned" | "raised" | "mutated"
    result,          \* the returned result record (when pc = "returned")
    tiebreak_calls,  \* one [arg, ret] entry per invocation of tiebreak; arg is
                     \* the set of ids in the list passed
    irv,             \* locals of resolve_irv that live across rounds
    rp,              \* locals of resolve_ranked_pairs/_apply_ranked_pairs
    create           \* a call of a ballot constructor: its arguments, the
                     \* objects it and its caller hold, the ballot returned

vars == <<method, candidates, ballots, pc, result, tiebreak_calls, irv, rp, create>>

----------------------------------------------------------------------------
(* Bounds of the model *)

MaxIds == 3            \* ids 1..MaxIds; candidate lists have 0..MaxIds entries
MaxBallots == 2        \* ballots per call, ballots of any content
MaxRankedBallots == 3  \* ballots per call, ranked ballots validated against
                       \* the candidate list
MaxPartialBallots == 3 \* ballots per call, ranked ballots over PartialIds
MaxRunoffBallots == 4  \* ballots per call of resolve_irv, over PartialIds

(* Program constants *)

MAX_SCORE == 10
MIN_SCORE == 0
DEFAULT_CREDIT_BUDGET == 100

----------------------------------------------------------------------------
(* Generic helpers *)

Ids == 1..MaxIds

\* None of Python: ids are >= 1
None == 0

Range(s) == {s[i] : i \in DOMAIN s}

SeqsUpTo(S, n) == UNION {[1..k -> S] : k \in 0..n}

RECURSIVE SetToSeq(_)
SetToSeq(S) ==
    IF S = {} THEN <<>>
    ELSE LET x == CHOOSE y \in S : TRUE IN <<x>> \o SetToSeq(S \ {x})

\* bs is a list of up to n ballots from S. Every resolver reads its ballot
\* list only through sums and counts over the ballots, so one list stands
\* for all its permutations: the lists are drawn in non-decreasing order of
\* the ballots' position in a fixed enumeration of S.
IsBallotList(bs, S, n) ==
    \E order \in {SetToSeq(S)} :
      \E k \in 0..n :
        \E f \in {g \in [1..k -> 1..Len(order)] :
                      \A i \in 1..(k - 1) : g[i] <= g[i + 1]} :
          bs = [i \in 1..k |-> order[f[i]]]

RECURSIVE SumOver(_, _)
SumOver(f, S) ==
    IF S = {} THEN 0
    ELSE LET k == CHOOSE k \in S : TRUE IN f[k] + SumOver(f, S \ {k})

\* max(d.values()) / min(d.values()) of a non-empty dict
MaxValue(d) == CHOOSE v \in {d[k] : k \in DOMAIN d} : \A k \in DOMAIN d : d[k] <= v
MinValue(d) == CHOOSE v \in {d[k] : k \in DOMAIN d} : \A k \in DOMAIN d : d[k] >= v

\* candidate lists of the model: <<>>, <<1>>, <<1,2>>, ...
CandidateLists == {[i \in 1..n |-> i] : n \in 0..MaxIds}

\* {c.id: 0 for c in candidates}
ZeroCounts(cands) == [c \in Range(cands) |-> 0]

\* [k for k, v in d.items() if v == x]: dict order is the candidate order
KeysWithValue(cands, d, x) == SelectSeq(cands, LAMBDA c : d[c] = x)

NoResult == [winners |-> <<>>]
NoIrv == [active_ballots |-> <<>>, abstention_count |-> 0, eliminated |-> {},
          remaining_candidates |-> {}, rounds |-> <<>>, round_number |-> 0,
          exit |-> "none"]
NoRp == [include_pairwise_matrix |-> TRUE, matrix |-> <<>>,
         sorted_victories |-> <<>>, graph |-> <<>>,
         locked |-> <<>>, skipped |-> <<>>, winner |-> None, exit |-> "none"]
NoCreate == [args |-> <<>>, heap |-> <<>>, ballot |-> <<>>,
             error |-> "none", message |-> "none"]

----------------------------------------------------------------------------
(* The winner block shared by plurality, approval, score and borda:        *)
(* the set of outcomes, one per value tiebreak may return.                 *)

\* a tie settled by taking the first tied candidate, tiebreak never asked
DetermineWinner_FirstTied(tied) ==
    IF Len(tied) = 0 THEN
        {[winners |-> <<>>, tiebreak_applied |-> FALSE, calls |-> <<>>]}
    ELSE
        {[winners |-> <<tied[1]>>, tiebreak_applied |-> FALSE, calls |-> <<>>]}

DetermineWinner(tied) ==
    IF Len(tied) = 0 THEN
        {[winners |-> <<>>, tiebreak_applied |-> FALSE, calls |-> <<>>]}
    ELSE IF Len(tied) = 1 THEN
        {[winners |-> tied, tiebreak_applied |-> FALSE, calls |-> <<>>]}
    ELSE
        {[winners |-> <<w>>, tiebreak_applied |-> TRUE,
          calls |-> <<[arg |-> Range(tied), ret |-> w]>>] : w \in Range(tied)}

----------------------------------------------------------------------------
(* Single-choice ballots and plurality *)

SingleChoiceBallot(choice) == [choice |-> choice]

SingleChoiceBallots == {SingleChoiceBallot(c) : c \in Ids \cup {None}}

single_choice_is_abstention(ballot) == ballot.choice = None

\* the count kept with .get(choice, 0) + 1 and no membership test
PluralityCount_NoMembershipTest(acc, ballot) ==
    IF single_choice_is_abstention(ballot) THEN
        [acc EXCEPT !.abstentions = @ + 1]
    ELSE
        [acc EXCEPT !.vote_counts =
            [c \in DOMAIN @ \cup {ballot.choice} |->
                IF c = ballot.choice
                THEN (IF c \in DOMAIN @ THEN @[c] ELSE 0) + 1
                ELSE @[c]]]

\* a vote for an unknown id booked as an abstention
PluralityCount_UnknownAbstains(acc, ballot) ==
    IF single_choice_is_abstention(ballot)
       \/ ballot.choice \notin DOMAIN acc.vote_counts THEN
        [acc EXCEPT !.abstentions = @ + 1]
    ELSE
        [acc EXCEPT !.vote_counts[ballot.choice] = @ + 1]

\* one iteration of the counting loop of resolve_plurality
PluralityCount(acc, ballot) ==
    IF single_choice_is_abstention(ballot) THEN
        [acc EXCEPT !.abstentions = @ + 1]
    ELSE IF ballot.choice \in DOMAIN acc.vote_counts THEN
        [acc EXCEPT !.vote_counts[ballot.choice] = @ + 1]
    ELSE acc

RECURSIVE PluralityTally(_, _, _)
PluralityTally(acc, bs, i) ==
    IF i > Len(bs) THEN acc
    ELSE PluralityTally(PluralityCount(acc, bs[i]), bs, i + 1)

resolve_plurality ==
    /\ pc = "call"
    /\ method = "plurality"
    /\ \E t \in {PluralityTally([vote_counts |-> ZeroCounts(candidates),
                                abstentions |-> 0], ballots, 1)} :
       LET vote_counts == t.vote_counts
           max_votes == IF DOMAIN vote_counts # {} THEN MaxValue(vote_counts) ELSE 0
           tied == KeysWithValue(candidates, vote_counts, max_votes)
       IN \E o \in DetermineWinner(tied) :
            /\ result' = [winners |-> o.winners,
                          vote_counts |-> vote_counts,
                          total_ballots |-> Len(ballots),
                          abstentions |-> t.abstentions,
                          tiebreak_applied |-> o.tiebreak_applied]
            /\ tiebreak_calls' = o.calls
    /\ pc' = "returned"
    /\ UNCHANGED <<method, candidates, ballots, irv, rp, create>>

----------------------------------------------------------------------------
(* Approval ballots and approval tally *)

ApprovalBallot(approvals) == [approvals |-> approvals]

ApprovalBallots == {ApprovalBallot(S) : S \in SUBSET Ids}

approval_is_abstention(ballot) == Cardinality(ballot.approvals) = 0

\* one iteration of the counting loop of resolve_approval
ApprovalCount(acc, ballot) ==
    IF approval_is_abstention(ballot) THEN
        [acc EXCEPT !.abstentions = @ + 1]
    ELSE
        LET valid_approvals == ballot.approvals \cap DOMAIN acc.vote_counts
        IN [acc EXCEPT
              !.total_approvals = @ + Cardinality(valid_approvals),
              !.vote_counts = [c \in DOMAIN @ |->
                                  IF c \in valid_approvals THEN @[c] + 1 ELSE @[c]]]

RECURSIVE ApprovalTally(_, _, _)
ApprovalTally(acc, bs, i) ==
    IF i > Len(bs) THEN acc
    ELSE ApprovalTally(ApprovalCount(acc, bs[i]), bs, i + 1)

\* a float quotient num / den is kept as the pair; den = 0 stands for the
\* guarded 0.0 of the code
Ratio(num, den) == [num |-> IF den > 0 THEN num ELSE 0, den |-> den]

resolve_approval ==
    /\ pc = "call"
    /\ method = "approval"
    /\ \E t \in {ApprovalTally([vote_counts |-> ZeroCounts(candidates),
                               abstentions |-> 0, total_approvals |-> 0],
                              ballots, 1)} :
       LET vote_counts == t.vote_counts
           non_abstaining == Len(ballots) - t.abstentions
           max_approvals == IF DOMAIN vote_counts # {} THEN MaxValue(vote_counts) ELSE 0
           tied == KeysWithValue(candidates, vote_counts, max_approvals)
       IN \E o \in DetermineWinner(tied) :
            /\ result' = [winners |-> o.winners,
                          vote_counts |-> vote_counts,
                          total_ballots |-> Len(ballots),
                          abstentions |-> t.abstentions,
                          tiebreak_applied |-> o.tiebreak_applied,
                          avg_approvals_per_ballot |->
                              Ratio(t.total_approvals, non_abstaining),
                          approval_rates |->
                              [c \in DOMAIN vote_counts |->
                                  Ratio(vote_counts[c], non_abstaining)]]
            /\ tiebreak_calls' = o.calls
    /\ pc' = "returned"
    /\ UNCHANGED <<method, candidates, ballots, irv, rp, create>>

----------------------------------------------------------------------------
(* Score ballots and score tally *)

\* the scores a modelled ballot may give
ScoreValues == {MIN_SCORE, MAX_SCORE}

ScoreBallot(scores) == [scores |-> scores]

ScoreBallots == {ScoreBallot(f) : f \in UNION {[S -> ScoreValues] : S \in SUBSET Ids}}

score_is_abstention(ballot) == Cardinality(DOMAIN ballot.scores) = 0

get_score(ballot, candidate_id) ==
    IF candidate_id \in DOMAIN ballot.scores THEN ballot.scores[candidate_id] ELSE 0

\* one iteration of the tally loop of resolve_score
ScoreCount(acc, ballot) ==
    IF score_is_abstention(ballot) THEN
        [acc EXCEPT !.abstentions = @ + 1]
    ELSE
        [acc EXCEPT !.score_totals =
            [cid \in DOMAIN @ |-> @[cid] + get_score(ballot, cid)]]

RECURSIVE ScoreTally(_, _, _)
ScoreTally(acc, bs, i) ==
    IF i > Len(bs) THEN acc
    ELSE ScoreTally(ScoreCount(acc, bs[i]), bs, i + 1)

resolve_score ==
    /\ pc = "call"
    /\ method = "score"
    /\ \E t \in {ScoreTally([score_totals |-> ZeroCounts(candidates),
                            abstentions |-> 0], ballots, 1)} :
       LET score_totals == t.score_totals
           non_abstaining == Len(ballots) - t.abstentions
           max_possible == IF non_abstaining > 0 THEN MAX_SCORE * non_abstaining ELSE 0
           max_total == IF DOMAIN score_totals # {} THEN MaxValue(score_totals) ELSE 0
           tied == KeysWithValue(candidates, score_totals, max_total)
       IN \E o \in DetermineWinner(tied) :
            /\ result' = [winners |-> o.winners,
                          vote_counts |-> score_totals,
                          total_ballots |-> Len(ballots),
                          abstentions |-> t.abstentions,
                          tiebreak_applied |-> o.tiebreak_applied,
                          score_totals |-> score_totals,
                          avg_scores |->
                              [c \in DOMAIN score_totals |->
                                  Ratio(score_totals[c], non_abstaining)],
                          max_possible_score |-> max_possible,
                          score_percentages |->
                              [c \in DOMAIN score_totals |->
                                  Ratio(score_totals[c] * 100, max_possible)]]
            /\ tiebreak_calls' = o.calls
    /\ pc' = "returned"
    /\ UNCHANGED <<method, candidates, ballots, irv, rp, create>>

----------------------------------------------------------------------------
(* Ranked-choice ballots *)

\* duplicate-free rankings: the only ones create_ranked_choice_ballot accepts
Rankings == {r \in SeqsUpTo(Ids, MaxIds) :
                \A i, j \in DOMAIN r : r[i] = r[j] => i = j}

\* rank_lookup filled with the 0-based index instead of index + 1
RankedChoiceBallot_ZeroBasedLookup(ranking) ==
    [ranking |-> ranking,
     rank_lookup |-> [c \in Range(ranking) |->
                        (CHOOSE i \in DOMAIN ranking :
                            /\ ranking[i] = c
                            /\ \A j \in DOMAIN ranking : ranking[j] = c => j <= i)
                        - 1]]

\* the two representations built by create_ranked_choice_ballot
RankedChoiceBallot(ranking) ==
    [ranking |-> ranking,
     rank_lookup |-> [c \in Range(ranking) |->
                        CHOOSE i \in DOMAIN ranking :
                            /\ ranking[i] = c
                            /\ \A j \in DOMAIN ranking : ranking[j] = c => j <= i]]

\* ballots built without a candidate set (ranking None gives the empty one)
RankedChoiceBallots == {RankedChoiceBallot(r) : r \in Rankings}

ranked_is_abstention(ballot) == Len(ballot.ranking) = 0

\* ballots built with the candidate set supplied: the ranking is None or
\* its set of ids is exactly the candidate set
ValidatedRankedChoiceBallots(cands) ==
    {RankedChoiceBallot(r) : r \in {q \in Rankings : q = <<>> \/ Range(q) = Range(cands)}}

\* the ids that the partially filled ballots of the longer lists rank
PartialIds == {1, 2, 3}

\* ballots built without a candidate set that rank some or all of PartialIds
PartialRankedChoiceBallots ==
    {RankedChoiceBallot(r) : r \in {q \in Rankings : Range(q) \subseteq PartialIds}}

\* the ballot lists of the ranked methods: up to MaxBallots ballots of any
\* ranking, up to MaxRankedBallots validated ballots, or up to
\* MaxPartialBallots ballots over PartialIds
IsRankedBallotList(bs, cands) ==
    \/ IsBallotList(bs, RankedChoiceBallots, MaxBallots)
    \/ IsBallotList(bs, ValidatedRankedChoiceBallots(cands), MaxRankedBallots)
    \/ IsBallotList(bs, PartialRankedChoiceBallots, MaxPartialBallots)

----------------------------------------------------------------------------
(* Borda count *)

\* points counted from the 1-based rank instead of the 0-based position
BordaPoints_FromRank(max_points, position) == max_points - (position + 1)

\* line 73: points = max_points - position
BordaPoints(max_points, position) == max_points - position

\* the loop over enumerate(ballot.ranking), from 1-based index i on
RECURSIVE BordaAward(_, _, _, _)
BordaAward(point_totals, ranking, max_points, i) ==
    IF i > Len(ranking) THEN point_totals
    ELSE LET position == i - 1
             candidate_id == ranking[i]
         IN BordaAward(IF candidate_id \in DOMAIN point_totals
                       THEN [point_totals EXCEPT
                               ![candidate_id] = @ + BordaPoints(max_points, position)]
                       ELSE point_totals,
                       ranking, max_points, i + 1)

\* one iteration of the tally loop of resolve_borda
BordaCount(acc, ballot, max_points) ==
    IF ranked_is_abstention(ballot) THEN
        [acc EXCEPT !.abstentions = @ + 1]
    ELSE
        [acc EXCEPT !.point_totals = BordaAward(@, ballot.ranking, max_points, 1)]

RECURSIVE BordaTally(_, _, _, _)
BordaTally(acc, bs, max_points, i) ==
    IF i > Len(bs) THEN acc
    ELSE BordaTally(BordaCount(acc, bs[i], max_points), bs, max_points, i + 1)

resolve_borda ==
    /\ pc = "call"
    /\ method = "borda"
    /\ LET n == Len(candidates)
           max_points == IF n > 0 THEN n - 1 ELSE 0
       IN
       \E t \in {BordaTally([point_totals |-> ZeroCounts(candidates),
                              abstentions |-> 0], ballots, max_points, 1)} :
       LET point_totals == t.point_totals
           max_total == IF DOMAIN point_totals # {} THEN MaxValue(point_totals) ELSE 0
           tied == KeysWithValue(candidates, point_totals, max_total)
       IN \E o \in DetermineWinner(tied) :
            /\ result' = [winners |-> o.winners,
                          vote_counts |-> point_totals,
                          total_ballots |-> Len(ballots),
                          abstentions |-> t.abstentions,
                          tiebreak_applied |-> o.tiebreak_applied,
                          point_totals |-> point_totals,
                          max_points_per_ballot |-> max_points,
                          avg_points_per_candidate |->
                              Ratio(SumOver(point_totals, DOMAIN point_totals), n)]
            /\ tiebreak_calls' = o.calls
    /\ pc' = "returned"
    /\ UNCHANGED <<method, candidates, ballots, irv, rp, create>>

----------------------------------------------------------------------------
(* Quadratic ballots and quadratic voting *)

\* the signed vote counts and the budgets a modelled ballot may carry
VoteValues == {-1, 2}
CreditBudgets == {0, DEFAULT_CREDIT_BUDGET}

QuadraticBallot(allocations, credit_budget) ==
    [allocations |-> allocations, credit_budget |-> credit_budget]

QuadraticBallots ==
    {QuadraticBallot(f, b) :
        f \in UNION {[S -> VoteValues] : S \in SUBSET Ids}, b \in CreditBudgets}

is_quadratic_abstention(ballot) == Cardinality(DOMAIN ballot.allocations) = 0

\* one iteration of the ballot loop of resolve_quadratic
QuadraticCount(acc, ballot) ==
    IF is_quadratic_abstention(ballot) THEN
        [acc EXCEPT !.abstentions = @ + 1]
    ELSE
        LET known == DOMAIN ballot.allocations \cap DOMAIN acc.vote_totals
            known_cost == SumOver([c \in known |->
                              ballot.allocations[c] * ballot.allocations[c]], known)
        IN [acc EXCEPT
              !.vote_totals = [c \in DOMAIN @ |->
                                  IF c \in known THEN @[c] + ballot.allocations[c]
                                  ELSE @[c]],
              !.counted_vote_allocations = @ + Cardinality(known),
              !.total_credits_spent = @ + known_cost,
              !.total_credits_available = @ + ballot.credit_budget,
              !.voter_utilizations =
                  Append(@, Ratio(known_cost, ballot.credit_budget))]

RECURSIVE QuadraticTally(_, _, _)
QuadraticTally(acc, bs, i) ==
    IF i > Len(bs) THEN acc
    ELSE QuadraticTally(QuadraticCount(acc, bs[i]), bs, i + 1)

\* the winner block without the counted_vote_allocations test
QuadraticDetermineWinner_IgnoreCount(cands, vote_totals, counted_vote_allocations) ==
    LET max_total == IF DOMAIN vote_totals # {} THEN MaxValue(vote_totals) ELSE 0
        tied == KeysWithValue(cands, vote_totals, max_total)
    IN IF Len(tied) = 1 THEN
           {[winners |-> tied, tiebreak_applied |-> FALSE, calls |-> <<>>]}
       ELSE
           {[winners |-> <<w>>, tiebreak_applied |-> TRUE,
             calls |-> <<[arg |-> Range(tied), ret |-> w]>>] : w \in Range(tied)}

\* the winner block of resolve_quadratic
QuadraticDetermineWinner(cands, vote_totals, counted_vote_allocations) ==
    IF counted_vote_allocations = 0 THEN
        {[winners |-> <<>>, tiebreak_applied |-> FALSE, calls |-> <<>>]}
    ELSE
        LET max_total == IF DOMAIN vote_totals # {} THEN MaxValue(vote_totals) ELSE 0
            tied == KeysWithValue(cands, vote_totals, max_total)
        IN IF Len(tied) = 1 THEN
               {[winners |-> tied, tiebreak_applied |-> FALSE, calls |-> <<>>]}
           ELSE
               {[winners |-> <<w>>, tiebreak_applied |-> TRUE,
                 calls |-> <<[arg |-> Range(tied), ret |-> w]>>] : w \in Range(tied)}

\* avg_voter_utilization is the mean of voter_utilizations; the list of
\* per-ballot quotients is kept in its place
resolve_quadratic ==
    /\ pc = "call"
    /\ method = "quadratic"
    /\ \E t \in {QuadraticTally([vote_totals |-> ZeroCounts(candidates),
                                abstentions |-> 0,
                                total_credits_spent |-> 0,
                                total_credits_available |-> 0,
                                voter_utilizations |-> <<>>,
                                counted_vote_allocations |-> 0], ballots, 1)} :
       LET vote_totals == t.vote_totals
       IN \E o \in QuadraticDetermineWinner(candidates, vote_totals,
                                            t.counted_vote_allocations) :
            /\ result' = [winners |-> o.winners,
                          vote_counts |-> vote_totals,
                          total_ballots |-> Len(ballots),
                          abstentions |-> t.abstentions,
                          tiebreak_applied |-> o.tiebreak_applied,
                          vote_totals |-> vote_totals,
                          total_credits_spent |-> t.total_credits_spent,
                          total_credits_available |-> t.total_credits_available,
                          overall_utilization |->
                              Ratio(t.total_credits_spent, t.total_credits_available),
                          avg_voter_utilization |-> t.voter_utilizations,
                          candidates_with_negative_totals |->
                              Cardinality({c \in DOMAIN vote_totals :
                                              vote_totals[c] < 0})]
            /\ tiebreak_calls' = o.calls
    /\ pc' = "returned"
    /\ UNCHANGED <<method, candidates, ballots, irv, rp, create>>

----------------------------------------------------------------------------
(* Instant-runoff voting *)

\* the first choice while it is not eliminated, None afterwards: no transfer
_get_active_choice_FirstOnly(ballot, eliminated) ==
    IF Len(ballot.ranking) = 0 \/ ballot.ranking[1] \in eliminated THEN None
    ELSE ballot.ranking[1]

\* first id of the ranking not in eliminated, None when there is none
_get_active_choice(ballot, eliminated) ==
    LET live == {i \in DOMAIN ballot.ranking : ballot.ranking[i] \notin eliminated}
    IN IF live = {} THEN None
       ELSE ballot.ranking[CHOOSE i \in live : \A j \in live : i <= j]

\* one iteration of a counting loop of resolve_irv; vote_counts[choice] += 1
\* on a key the dict does not hold raises KeyError
IrvCount(acc, ballot, eliminated) ==
    LET choice == _get_active_choice(ballot, eliminated)
    IN IF acc.raised THEN acc
       ELSE IF choice = None THEN [acc EXCEPT !.exhausted = @ + 1]
       ELSE IF choice \in DOMAIN acc.vote_counts THEN
           [acc EXCEPT !.vote_counts[choice] = @ + 1, !.active = @ + 1]
       ELSE [acc EXCEPT !.raised = TRUE]

RECURSIVE IrvTally(_, _, _, _)
IrvTally(acc, bs, eliminated, i) ==
    IF i > Len(bs) THEN acc
    ELSE IrvTally(IrvCount(acc, bs[i], eliminated), bs, eliminated, i + 1)

\* the tally started with a key for every candidate of the election
IrvTallyStart_AllCandidates(keys) ==
    [vote_counts |-> [c \in Range(candidates) |-> 0], exhausted |-> 0, active |-> 0,
     raised |-> FALSE]

IrvTallyStart(keys) ==
    [vote_counts |-> [c \in keys |-> 0], exhausted |-> 0, active |-> 0,
     raised |-> FALSE]

\* the majority test written with >=
IsMajority_AtLeastHalf(count, active_this_round) == 2 * count >= active_this_round

\* count > active_this_round / 2
IsMajority(count, active_this_round) == 2 * count > active_this_round

IRVRound(round_number, vote_counts, exhausted_ballots, active_ballots_, eliminated, elimination_was_tiebreak) ==
    [round_number |-> round_number,
     vote_counts |-> vote_counts,
     exhausted_ballots |-> exhausted_ballots,
     active_ballots |-> active_ballots_,
     eliminated |-> eliminated,
     elimination_was_tiebreak |-> elimination_was_tiebreak]

IRVResult(winners, vote_counts, abstentions, tiebreak_applied, rounds, total_exhausted, winning_round) ==
    [winners |-> winners,
     vote_counts |-> vote_counts,
     total_ballots |-> Len(ballots),
     abstentions |-> abstentions,
     tiebreak_applied |-> tiebreak_applied,
     rounds |-> rounds,
     total_exhausted |-> total_exhausted,
     winning_round |-> winning_round]

\* the elimination with the first test written with > : a round in which all
\* remaining candidates are tied falls through to the last branch
IrvElimination_StrictComparison(vote_counts, remaining_candidates) ==
    LET min_votes == MinValue(vote_counts)
        candidates_with_min == {c \in DOMAIN vote_counts : vote_counts[c] = min_votes}
    IN IF Cardinality(candidates_with_min) > Cardinality(remaining_candidates) THEN
           {[to_eliminate |-> remaining_candidates \ {w},
             elimination_was_tiebreak |-> TRUE,
             calls |-> <<[arg |-> remaining_candidates, ret |-> w]>>] :
                w \in remaining_candidates}
       ELSE IF Cardinality(remaining_candidates)
                 - Cardinality(candidates_with_min) >= 1 THEN
           {[to_eliminate |-> candidates_with_min,
             elimination_was_tiebreak |-> FALSE,
             calls |-> <<>>]}
       ELSE
           {[to_eliminate |-> {w},
             elimination_was_tiebreak |-> TRUE,
             calls |-> <<[arg |-> candidates_with_min, ret |-> w]>>] :
                w \in candidates_with_min}

\* the elimination with the bulk branch replaced by a tie-break among the
\* candidates tied at the minimum: one candidate leaves per round
IrvElimination_OneAtATime(vote_counts, remaining_candidates) ==
    LET min_votes == MinValue(vote_counts)
        candidates_with_min == {c \in DOMAIN vote_counts : vote_counts[c] = min_votes}
    IN IF Cardinality(candidates_with_min) >= Cardinality(remaining_candidates) THEN
           {[to_eliminate |-> remaining_candidates \ {w},
             elimination_was_tiebreak |-> TRUE,
             calls |-> <<[arg |-> remaining_candidates, ret |-> w]>>] :
                w \in remaining_candidates}
       ELSE IF Cardinality(candidates_with_min) = 1 THEN
           {[to_eliminate |-> candidates_with_min,
             elimination_was_tiebreak |-> FALSE,
             calls |-> <<>>]}
       ELSE
           {[to_eliminate |-> {w},
             elimination_was_tiebreak |-> TRUE,
             calls |-> <<[arg |-> candidates_with_min, ret |-> w]>>] :
                w \in candidates_with_min}

\* the choice of whom to eliminate: the set of outcomes, one per value
\* tiebreak may return.  eliminated lists come out of set iteration and are
\* kept as sets.
IrvElimination(vote_counts, remaining_candidates) ==
    LET min_votes == MinValue(vote_counts)
        candidates_with_min == {c \in DOMAIN vote_counts : vote_counts[c] = min_votes}
    IN IF Cardinality(candidates_with_min) >= Cardinality(remaining_candidates) THEN
           {[to_eliminate |-> remaining_candidates \ {w},
             elimination_was_tiebreak |-> TRUE,
             calls |-> <<[arg |-> remaining_candidates, ret |-> w]>>] :
                w \in remaining_candidates}
       ELSE IF Cardinality(remaining_candidates)
                 - Cardinality(candidates_with_min) >= 1 THEN
           {[to_eliminate |-> candidates_with_min,
             elimination_was_tiebreak |-> FALSE,
             calls |-> <<>>]}
       ELSE
           {[to_eliminate |-> {w},
             elimination_was_tiebreak |-> TRUE,
             calls |-> <<[arg |-> candidates_with_min, ret |-> w]>>] :
                w \in candidates_with_min}

\* lines 90-101: the set-up before the loop
resolve_irv_begin ==
    /\ pc = "call"
    /\ method = "irv"
    /\ LET active_ballots == SelectSeq(ballots, LAMBDA b : ~ranked_is_abstention(b))
       IN irv' = [active_ballots |-> active_ballots,
                  abstention_count |-> Len(ballots) - Len(active_ballots),
                  eliminated |-> {},
                  remaining_candidates |-> Range(candidates),
                  rounds |-> <<>>,
                  round_number |-> 0,
                  exit |-> "none"]
    /\ pc' = "irv_loop"
    /\ UNCHANGED <<method, candidates, ballots, result, tiebreak_calls, rp, create>>

\* the round's tally raises KeyError
IrvRaise(t) ==
    /\ t.raised
    /\ pc' = "raised"
    /\ irv' = [irv EXCEPT !.round_number = @ + 1, !.exit = "KeyError"]
    /\ UNCHANGED <<result, tiebreak_calls>>

\* lines 119-148: some candidate holds a majority of the active ballots
IrvMajority(t, round_number) ==
    /\ ~t.raised
    /\ \E winner \in {c \in DOMAIN t.vote_counts :
                        IsMajority(t.vote_counts[c], t.active)} :
        LET rounds == Append(irv.rounds,
                             IRVRound(round_number, t.vote_counts, t.exhausted,
                                      t.active, {}, FALSE))
        IN /\ result' = IRVResult(<<winner>>, t.vote_counts, irv.abstention_count,
                                  FALSE, rounds, t.exhausted, round_number)
           /\ irv' = [irv EXCEPT !.round_number = round_number,
                                 !.rounds = rounds, !.exit = "majority"]
    /\ pc' = "returned"
    /\ UNCHANGED tiebreak_calls

\* lines 150-162: no candidate is left to count
IrvNoCandidates(t, round_number) ==
    /\ ~t.raised
    /\ DOMAIN t.vote_counts = {}
    /\ result' = IRVResult(<<>>, <<>>, irv.abstention_count, FALSE, irv.rounds,
                           t.exhausted, 0)
    /\ irv' = [irv EXCEPT !.round_number = round_number, !.exit = "no_candidates"]
    /\ pc' = "returned"
    /\ UNCHANGED tiebreak_calls

\* the final tally round reuses the number of the round before it
FinalRoundNumber_NoIncrement(round_number) == round_number

\* line 207: round_number += 1 before the final single-candidate tally
FinalRoundNumber(round_number) == round_number + 1

\* the eliminated candidates stay in remaining_candidates
RemoveEliminated_Kept(remaining_candidates, to_eliminate) == remaining_candidates

\* lines 198-200: remaining_candidates.remove(cid) for cid in to_eliminate
RemoveEliminated(remaining_candidates, to_eliminate) ==
    remaining_candidates \ to_eliminate

\* lines 164-251: eliminate, then return or go round again
IrvEliminate(t, round_number) ==
    /\ ~t.raised
    /\ DOMAIN t.vote_counts # {}
    /\ \A c \in DOMAIN t.vote_counts : ~IsMajority(t.vote_counts[c], t.active)
    /\ \E e \in IrvElimination(t.vote_counts, irv.remaining_candidates) :
        LET rounds == Append(irv.rounds,
                             IRVRound(round_number, t.vote_counts, t.exhausted,
                                      t.active, e.to_eliminate,
                                      e.elimination_was_tiebreak))
            eliminated == irv.eliminated \cup e.to_eliminate
            remaining_candidates == RemoveEliminated(irv.remaining_candidates,
                                                     e.to_eliminate)
            f == IrvTally(IrvTallyStart(remaining_candidates),
                          irv.active_ballots, eliminated, 1)
            final_rounds == Append(rounds,
                                   IRVRound(FinalRoundNumber(round_number), f.vote_counts,
                                            f.exhausted, f.active, {}, FALSE))
        IN /\ tiebreak_calls' = tiebreak_calls \o e.calls
           /\ IF Cardinality(remaining_candidates) = 1 THEN
                  IF f.raised THEN
                      /\ pc' = "raised"
                      /\ irv' = [irv EXCEPT !.round_number = FinalRoundNumber(round_number),
                                            !.rounds = rounds,
                                            !.eliminated = eliminated,
                                            !.remaining_candidates = remaining_candidates,
                                            !.exit = "KeyError"]
                      /\ UNCHANGED result
                  ELSE
                      /\ pc' = "returned"
                      /\ result' = IRVResult(
                             <<CHOOSE w \in remaining_candidates : TRUE>>,
                             f.vote_counts, irv.abstention_count,
                             e.elimination_was_tiebreak, final_rounds,
                             f.exhausted, FinalRoundNumber(round_number))
                      /\ irv' = [irv EXCEPT !.round_number = FinalRoundNumber(round_number),
                                            !.rounds = final_rounds,
                                            !.eliminated = eliminated,
                                            !.remaining_candidates = remaining_candidates,
                                            !.exit = "final"]
              ELSE IF Cardinality(remaining_candidates) = 0 THEN
                  /\ pc' = "returned"
                  /\ result' = IRVResult(<<>>, <<>>, irv.abstention_count,
                                         e.elimination_was_tiebreak, rounds,
                                         Len(irv.active_ballots), 0)
                  /\ irv' = [irv EXCEPT !.round_number = round_number,
                                        !.rounds = rounds,
                                        !.eliminated = eliminated,
                                        !.remaining_candidates = remaining_candidates,
                                        !.exit = "all_eliminated"]
              ELSE
                  /\ pc' = "irv_loop"
                  /\ irv' = [irv EXCEPT !.round_number = round_number,
                                        !.rounds = rounds,
                                        !.eliminated = eliminated,
                                        !.remaining_candidates = remaining_candidates]
                  /\ UNCHANGED result

\* one iteration of the while loop of resolve_irv
resolve_irv_round ==
    /\ pc = "irv_loop"
    /\ method = "irv"
    /\ \E t \in {IrvTally(IrvTallyStart(irv.remaining_candidates),
                            irv.active_ballots, irv.eliminated, 1)} :
       LET round_number == irv.round_number + 1
       IN \/ IrvRaise(t)
          \/ IrvMajority(t, round_number)
          \/ IrvNoCandidates(t, round_number)
          \/ IrvEliminate(t, round_number)
    /\ UNCHANGED <<method, candidates, ballots, rp, create>>

----------------------------------------------------------------------------
(* Condorcet with Ranked-Pairs completion *)

\* "True" / "False" by rank, "None" when either id is not on the ballot
prefers(ballot, candidate_a, candidate_b) ==
    IF candidate_a \notin DOMAIN ballot.rank_lookup
       \/ candidate_b \notin DOMAIN ballot.rank_lookup
    THEN "None"
    ELSE IF ballot.rank_lookup[candidate_a] < ballot.rank_lookup[candidate_b]
    THEN "True" ELSE "False"

IndexOf(seq, x) == CHOOSE i \in DOMAIN seq : seq[i] = x

\* the matrix with "elif pref is False" written as a plain else: a ballot
\* that does not rank both ids adds to matrix[b][a]
_build_pairwise_matrix_NoneIsFalse(candidate_ids, bs) ==
    [x \in Range(candidate_ids) |->
        [y \in Range(candidate_ids) \ {x} |->
            Cardinality({k \in DOMAIN bs :
                /\ ~ranked_is_abstention(bs[k])
                /\ IF IndexOf(candidate_ids, x) < IndexOf(candidate_ids, y)
                   THEN prefers(bs[k], x, y) = "True"
                   ELSE prefers(bs[k], y, x) # "True"})]]

\* matrix[x][y]: every pair is visited once as (a, b) with a before b in the
\* candidate list; "True" adds to matrix[a][b], "False" to matrix[b][a]
_build_pairwise_matrix(candidate_ids, bs) ==
    [x \in Range(candidate_ids) |->
        [y \in Range(candidate_ids) \ {x} |->
            Cardinality({k \in DOMAIN bs :
                /\ ~ranked_is_abstention(bs[k])
                /\ IF IndexOf(candidate_ids, x) < IndexOf(candidate_ids, y)
                   THEN prefers(bs[k], x, y) = "True"
                   ELSE prefers(bs[k], y, x) = "False"})]]

_get_margin(matrix, a, b) == matrix[a][b] - matrix[b][a]

\* the margin test written with < : a pairwise tie counts as a win
_find_condorcet_winner_TiesBeat(candidate_ids, matrix) ==
    LET beats_all == {i \in DOMAIN candidate_ids :
                        \A j \in DOMAIN candidate_ids \ {i} :
                            ~(_get_margin(matrix, candidate_ids[i],
                                          candidate_ids[j]) < 0)}
    IN IF beats_all = {} THEN None
       ELSE candidate_ids[CHOOSE i \in beats_all : \A j \in beats_all : i <= j]

\* the first candidate of the list whose margin over every opponent is > 0
_find_condorcet_winner(candidate_ids, matrix) ==
    LET beats_all == {i \in DOMAIN candidate_ids :
                        \A j \in DOMAIN candidate_ids \ {i} :
                            ~(_get_margin(matrix, candidate_ids[i],
                                          candidate_ids[j]) <= 0)}
    IN IF beats_all = {} THEN None
       ELSE candidate_ids[CHOOSE i \in beats_all : \A j \in beats_all : i <= j]

\* the victories <<winner, loser, margin, winning_votes>>; their list order
\* is lost in the shuffle of _sort_victories
_get_all_victories(candidate_ids, matrix) ==
    LET pairs == {p \in (DOMAIN candidate_ids) \X (DOMAIN candidate_ids) : p[1] < p[2]}
        a(p) == candidate_ids[p[1]]
        b(p) == candidate_ids[p[2]]
    IN {<<a(p), b(p), _get_margin(matrix, a(p), b(p)), matrix[a(p)][b(p)]>> :
            p \in {q \in pairs : _get_margin(matrix, a(q), b(q)) > 0}}
       \cup
       {<<b(p), a(p), -_get_margin(matrix, a(p), b(p)), matrix[b(p)][a(p)]>> :
            p \in {q \in pairs : _get_margin(matrix, a(q), b(q)) < 0}}

\* the order without the sort on winning votes: larger margin only
SortsBefore_MarginOnly(u, v) == u[3] > v[3]

\* u sorts strictly before v: larger margin, or equal margin and more
\* winning votes
SortsBefore(u, v) == u[3] > v[3] \/ (u[3] = v[3] /\ u[4] > v[4])

\* every list a random shuffle followed by the two stable sorts can return
RECURSIVE _sort_victories(_)
_sort_victories(victories) ==
    IF victories = {} THEN {<<>>}
    ELSE UNION {{<<v>> \o rest : rest \in _sort_victories(victories \ {v})} :
                    v \in {u \in victories :
                              \A o \in victories : ~SortsBefore(o, u)}}

\* the ids the search from start visits along the edges of graph
RECURSIVE Reachable(_, _)
Reachable(graph, visited) ==
    LET more == visited \cup UNION {graph[c] : c \in visited \cap DOMAIN graph}
    IN IF more = visited THEN visited ELSE Reachable(graph, more)

\* no search at all: every victory is locked
_would_create_cycle_Never(graph, winner, loser) == FALSE

\* the search stopped after the first step: only a direct edge from loser
\* to winner counts
_would_create_cycle_DirectEdgeOnly(graph, winner, loser) == winner \in graph[loser]

\* is there already a path from loser to winner
_would_create_cycle(graph, winner, loser) == winner \in Reachable(graph, {loser})

RankedPairsResult(winners, vote_counts, abstentions, tiebreak_applied, pairwise_matrix, had_condorcet_winner, locked, skipped) ==
    [winners |-> winners,
     vote_counts |-> vote_counts,
     total_ballots |-> Len(ballots),
     abstentions |-> abstentions,
     tiebreak_applied |-> tiebreak_applied,
     pairwise_matrix |-> pairwise_matrix,
     had_condorcet_winner |-> had_condorcet_winner,
     locked_victories |-> locked,
     skipped_victories |-> skipped]

RankedAbstentions(bs) == Len(SelectSeq(bs, ranked_is_abstention))

\* vote_counts of lines 290-294 and 312-315: pairwise wins
PairwiseWins(candidate_ids, matrix) ==
    [cid \in Range(candidate_ids) |->
        Cardinality({opp \in Range(candidate_ids) :
                        opp # cid /\ _get_margin(matrix, cid, opp) > 0})]

\* the loop of _apply_ranked_pairs (lines 197-211) over sorted_victories
RECURSIVE _apply_ranked_pairs(_, _)
_apply_ranked_pairs(candidate_ids, sorted_victories) ==
    IF Len(sorted_victories) = 0
    THEN [graph |-> [cid \in Range(candidate_ids) |-> {}],
          locked |-> <<>>, skipped |-> <<>>]
    ELSE LET before == _apply_ranked_pairs(candidate_ids,
                           SubSeq(sorted_victories, 1, Len(sorted_victories) - 1))
             v == sorted_victories[Len(sorted_victories)]
             winner == v[1]
             loser == v[2]
             margin == v[3]
         IN IF _would_create_cycle(before.graph, winner, loser)
            THEN [before EXCEPT !.skipped = Append(@, <<winner, loser, margin>>)]
            ELSE [before EXCEPT !.graph[winner] = @ \cup {loser},
                                !.locked = Append(@, <<winner, loser, margin>>)]

\* lines 213-227: the winner of _apply_ranked_pairs, None when no source
\* exists: the set of outcomes, one per value tiebreak may return
RankedPairsSources(candidate_ids, graph) ==
    LET has_incoming == UNION {graph[c] : c \in DOMAIN graph}
    IN SelectSeq(candidate_ids, LAMBDA cid : cid \notin has_incoming)

RankedPairsWinner(sources) ==
    IF Len(sources) = 1 THEN {[winner |-> sources[1], calls |-> <<>>]}
    ELSE IF Len(sources) = 0 THEN {[winner |-> None, calls |-> <<>>]}
    ELSE {[winner |-> w, calls |-> <<[arg |-> Range(sources), ret |-> w]>>] :
             w \in Range(sources)}

\* tiebreak_applied of lines 317-322 (a None winner sets it once more)
RankedPairsTiebreakApplied(winner, skipped) == winner = None \/ Len(skipped) > 0

\* resolve_ranked_pairs, lines 250-334
resolve_ranked_pairs ==
    /\ pc = "call"
    /\ method = "ranked_pairs"
    /\ pc' = "returned"
    /\ \E matrix \in {_build_pairwise_matrix(candidates, ballots)} :
       \E abstentions \in {RankedAbstentions(ballots)} :
       LET candidate_ids == candidates
           condorcet_winner == _find_condorcet_winner(candidate_ids, matrix)
       IN IF Len(candidates) = 0 THEN
              /\ result' = RankedPairsResult(<<>>, <<>>, abstentions, FALSE, <<>>,
                                             FALSE, <<>>, <<>>)
              /\ rp' = [rp EXCEPT !.exit = "no_candidates"]
              /\ UNCHANGED tiebreak_calls
          ELSE IF Len(candidates) = 1 THEN
              /\ result' = RankedPairsResult(
                     <<candidates[1]>>,
                     [c \in {candidates[1]} |-> Len(ballots) - abstentions],
                     abstentions, FALSE,
                     [c \in {candidates[1]} |-> <<>>],
                     TRUE, <<>>, <<>>)
              /\ rp' = [rp EXCEPT !.exit = "one_candidate"]
              /\ UNCHANGED tiebreak_calls
          ELSE IF condorcet_winner # None THEN
              /\ result' = RankedPairsResult(
                     <<condorcet_winner>>,
                     PairwiseWins(candidate_ids, matrix),
                     abstentions, FALSE,
                     IF rp.include_pairwise_matrix THEN matrix ELSE <<>>,
                     TRUE, <<>>, <<>>)
              /\ rp' = [rp EXCEPT !.matrix = matrix, !.exit = "condorcet"]
              /\ UNCHANGED tiebreak_calls
          ELSE
              \E vote_counts \in {PairwiseWins(candidate_ids, matrix)} :
              \E sorted_victories \in
                      _sort_victories(_get_all_victories(candidate_ids, matrix)) :
              \E applied \in {_apply_ranked_pairs(candidate_ids, sorted_victories)} :
                LET sources == RankedPairsSources(candidate_ids, applied.graph)
                IN \E o \in RankedPairsWinner(sources) :
                     \E fallback \in (IF o.winner = None
                                      THEN Range(candidate_ids) ELSE {None}) :
                       /\ result' = RankedPairsResult(
                              <<IF o.winner = None THEN fallback ELSE o.winner>>,
                              vote_counts,
                              abstentions,
                              RankedPairsTiebreakApplied(o.winner, applied.skipped),
                              IF rp.include_pairwise_matrix THEN matrix ELSE <<>>,
                              FALSE, applied.locked, applied.skipped)
                       /\ tiebreak_calls' = tiebreak_calls \o o.calls \o
                              (IF o.winner = None
                               THEN <<[arg |-> Range(candidate_ids), ret |-> fallback]>>
                               ELSE <<>>)
                       /\ rp' = [rp EXCEPT !.matrix = matrix,
                                           !.sorted_victories = sorted_victories,
                                           !.graph = applied.graph,
                                           !.locked = applied.locked,
                                           !.skipped = applied.skipped,
                                           !.winner = o.winner,
                                           !.exit = "ranked_pairs"]
    /\ UNCHANGED <<method, candidates, ballots, irv, create>>

----------------------------------------------------------------------------
(* Calls of the single-pass tally methods *)

TallyMethods == {"plurality", "approval", "score", "borda", "quadratic"}

BallotsFor(m) ==
    CASE m = "plurality" -> SingleChoiceBallots
      [] m = "approval"  -> ApprovalBallots
      [] m = "score"     -> ScoreBallots
      [] m = "quadratic" -> QuadraticBallots
      [] OTHER           -> RankedChoiceBallots

InitTally ==
    /\ method \in TallyMethods
    /\ candidates \in CandidateLists
    /\ IsBallotList(ballots, BallotsFor(method), MaxBallots)
    /\ pc = "call"
    /\ result = NoResult
    /\ tiebreak_calls = <<>>
    /\ irv = NoIrv
    /\ rp = NoRp
    /\ create = NoCreate

NextTally ==
    \/ resolve_plurality
    \/ resolve_approval
    \/ resolve_score
    \/ resolve_borda
    \/ resolve_quadratic

SpecTally == InitTally /\ [][NextTally]_vars

----------------------------------------------------------------------------
(* Calls of resolve_irv *)

InitIRV ==
    /\ method = "irv"
    /\ candidates \in CandidateLists
    /\ \/ IsRankedBallotList(ballots, candidates)
       \/ IsBallotList(ballots, PartialRankedChoiceBallots, MaxRunoffBallots)
    /\ pc = "call"
    /\ result = NoResult
    /\ tiebreak_calls = <<>>
    /\ irv = NoIrv
    /\ rp = NoRp
    /\ create = NoCreate

NextIRV ==
    \/ resolve_irv_begin
    \/ resolve_irv_round

SpecIRV == InitIRV /\ [][NextIRV]_vars

\* the calls on validated ballots and on partially filled ballots; a call,
\* once made, runs its statements one after the other to the end
InitIRVFair ==
    /\ method = "irv"
    /\ candidates \in CandidateLists
    /\ \/ IsBallotList(ballots, ValidatedRankedChoiceBallots(candidates), MaxBallots)
       \/ IsBallotList(ballots, PartialRankedChoiceBallots, MaxBallots)
    /\ pc = "call"
    /\ result = NoResult
    /\ tiebreak_calls = <<>>
    /\ irv = NoIrv
    /\ rp = NoRp
    /\ create = NoCreate

SpecIRVFair == InitIRVFair /\ [][NextIRV]_vars /\ WF_vars(NextIRV)

----------------------------------------------------------------------------
(* Calls of resolve_ranked_pairs *)

\* the calls on validated ballots and on partially filled ballots
InitRP ==
    /\ method = "ranked_pairs"
    /\ candidates \in CandidateLists
    /\ \/ IsBallotList(ballots, ValidatedRankedChoiceBallots(candidates), MaxBallots)
       \/ IsBallotList(ballots, PartialRankedChoiceBallots, MaxPartialBallots)
    /\ pc = "call"
    /\ result = NoResult
    /\ tiebreak_calls = <<>>
    /\ irv = NoIrv
    /\ rp \in {[NoRp EXCEPT !.include_pairwise_matrix = f] : f \in BOOLEAN}
    /\ create = NoCreate

NextRP == resolve_ranked_pairs

SpecRP == InitRP /\ [][NextRP]_vars

----------------------------------------------------------------------------
(* The ballot constructors *)

\* Collections are objects: create.heap maps a reference to the value of the
\* object it names. CallerRef names the collection the caller passed in,
\* the other references name objects the constructor allocates. A ballot
\* holds references, so that a stored collection can be the caller's object.
CallerRef == "caller"
CopyRef == "copy"
LookupRef == "rank_lookup"

Constructors == {"create_approval_ballot", "create_ranked_choice_ballot",
                 "create_score_ballot", "create_quadratic_ballot"}

\* argument values
VoteArgs == {-1, 0, 1, 2}
BudgetArgs == {0, 1, 4, 5, DEFAULT_CREDIT_BUDGET}
ScoreArgs == {MIN_SCORE - 1, MIN_SCORE, MAX_SCORE, MAX_SCORE + 1}
Dicts(V) == UNION {[S -> V] : S \in SUBSET Ids}
Lists == SeqsUpTo(Ids, MaxIds)

\* the value of every collection a ballot stores
Deref(heap, ballot) ==
    [f \in DOMAIN ballot |->
        IF f = "credit_budget" THEN ballot[f] ELSE heap[ballot[f]]]

Raise(class, message) ==
    /\ create' = [create EXCEPT !.error = class, !.message = message]
    /\ pc' = "raised"

Return(heap, ballot) ==
    /\ create' = [create EXCEPT !.heap = heap, !.ballot = ballot]
    /\ pc' = "returned"

\* sum(v * v for v in allocations.values())
SumOfSquares(allocations) ==
    SumOver([c \in DOMAIN allocations |-> allocations[c] * allocations[c]],
            DOMAIN allocations)

\* the budget test written with >= : a cost equal to the budget is rejected
OverBudget_AtLeast(total_cost, credit_budget) == total_cost >= credit_budget

\* quadratic.py line 89: total_cost > credit_budget
OverBudget(total_cost, credit_budget) == total_cost > credit_budget

\* quadratic.py lines 66-96
create_quadratic_ballot ==
    /\ pc = "call"
    /\ method = "create_quadratic_ballot"
    /\ IF create.args.kind = "None" THEN
           Return(create.heap @@ (CopyRef :> <<>>),
                  [allocations |-> CopyRef,
                   credit_budget |-> create.args.credit_budget])
       ELSE
           LET allocations == create.heap[CallerRef]
               credit_budget == create.args.credit_budget
           IN IF /\ create.args.validate
                 /\ \E c \in DOMAIN allocations :
                       \/ allocations[c] = 0
                       \/ ~create.args.allow_negative /\ allocations[c] < 0
              THEN Raise("InvalidQuadraticBallotError", "votes")
              ELSE IF /\ create.args.validate
                      /\ OverBudget(SumOfSquares(allocations), credit_budget)
              THEN Raise("InvalidQuadraticBallotError", "budget")
              ELSE Return(create.heap @@ (CopyRef :> allocations),
                          [allocations |-> CopyRef,
                           credit_budget |-> credit_budget])
    /\ UNCHANGED <<method, candidates, ballots, result, tiebreak_calls, irv, rp>>

\* quadratic.py lines 109-111, on the stored allocations
quadratic_total_cost(heap, ballot) == SumOfSquares(heap[ballot.allocations])

\* score.py lines 56-70
create_score_ballot ==
    /\ pc = "call"
    /\ method = "create_score_ballot"
    /\ IF create.args.kind = "None" THEN
           Return(create.heap @@ (CopyRef :> <<>>), [scores |-> CopyRef])
       ELSE
           LET scores == create.heap[CallerRef]
           IN IF /\ create.args.validate
                 /\ \E c \in DOMAIN scores :
                       scores[c] < MIN_SCORE \/ scores[c] > MAX_SCORE
              THEN Raise("InvalidScoreError", "range")
              ELSE Return(create.heap @@ (CopyRef :> scores), [scores |-> CopyRef])
    /\ UNCHANGED <<method, candidates, ballots, result, tiebreak_calls, irv, rp>>

\* approval.py lines 34-41: a list is turned into a new set, a set is
\* stored as it is
create_approval_ballot ==
    /\ pc = "call"
    /\ method = "create_approval_ballot"
    /\ IF create.args.kind = "None" THEN
           Return(create.heap @@ (CopyRef :> {}), [approvals |-> CopyRef])
       ELSE IF create.args.kind = "list" THEN
           Return(create.heap @@ (CopyRef :> Range(create.heap[CallerRef])),
                  [approvals |-> CopyRef])
       ELSE
           Return(create.heap, [approvals |-> CallerRef])
    /\ UNCHANGED <<method, candidates, ballots, result, tiebreak_calls, irv, rp>>

\* the validation of lines 63-86 with the duplicate test left out
RankingError_NoDuplicateTest(ranking, candidates_given, cands) ==
    LET missing == Range(cands) \ Range(ranking)
        extra == Range(ranking) \ Range(cands)
    IN IF candidates_given /\ Range(ranking) # Range(cands) THEN
           IF missing # {} /\ extra # {} THEN "missing_and_extra"
           ELSE IF missing # {} THEN "missing"
           ELSE "extra"
       ELSE "none"

\* ranked_choice.py lines 63-86: the message of the InvalidRankingError the
\* ranking earns, "none" for a valid ranking
RankingError(ranking, candidates_given, cands) ==
    LET missing == Range(cands) \ Range(ranking)
        extra == Range(ranking) \ Range(cands)
    IN IF Len(ranking) # Cardinality(Range(ranking)) THEN "duplicates"
       ELSE IF candidates_given /\ Range(ranking) # Range(cands) THEN
           IF missing # {} /\ extra # {} THEN "missing_and_extra"
           ELSE IF missing # {} THEN "missing"
           ELSE "extra"
       ELSE "none"

\* ranked_choice.py lines 60-96
create_ranked_choice_ballot ==
    /\ pc = "call"
    /\ method = "create_ranked_choice_ballot"
    /\ IF create.args.kind = "None" THEN
           Return(create.heap @@ (CopyRef :> <<>>) @@ (LookupRef :> <<>>),
                  [ranking |-> CopyRef, rank_lookup |-> LookupRef])
       ELSE
           LET ranking == create.heap[CallerRef]
               message == RankingError(ranking, create.args.candidates_given,
                                       candidates)
               built == RankedChoiceBallot(ranking)
           IN IF message # "none" THEN Raise("InvalidRankingError", message)
              ELSE Return(create.heap @@ (CopyRef :> built.ranking)
                                      @@ (LookupRef :> built.rank_lookup),
                          [ranking |-> CopyRef, rank_lookup |-> LookupRef])
    /\ UNCHANGED <<method, candidates, ballots, result, tiebreak_calls, irv, rp>>

\* what the caller's collection can become by one mutating operation
Mutations(kind, value, V) ==
    IF kind = "list" THEN
        {Append(value, c) : c \in Ids}
            \cup (IF Len(value) = 0 THEN {}
                  ELSE {SubSeq(value, 1, Len(value) - 1)})
            \cup {[value EXCEPT ![i] = c] : i \in DOMAIN value, c \in Ids}
    ELSE IF kind = "set" THEN
        {value \cup {c} : c \in Ids} \cup {value \ {c} : c \in Ids}
    ELSE
        {[k \in DOMAIN value \cup {c} |-> IF k = c THEN v ELSE value[k]] :
            c \in Ids, v \in V}
            \cup {[k \in DOMAIN value \ {c} |-> value[k]] : c \in Ids}

\* the caller changes, after construction, the collection it passed in
caller_mutates ==
    /\ pc = "returned"
    /\ method \in Constructors
    /\ create.args.kind # "None"
    /\ \E value \in Mutations(create.args.kind, create.heap[CallerRef],
                               IF method = "create_score_ballot"
                               THEN ScoreArgs ELSE VoteArgs) :
          /\ value # create.heap[CallerRef]
          /\ create' = [create EXCEPT !.heap[CallerRef] = value]
    /\ pc' = "mutated"
    /\ UNCHANGED <<method, candidates, ballots, result, tiebreak_calls, irv, rp>>

\* the calls: constructor, arguments, and the caller's collection
CreateCalls ==
    {[method |-> "create_quadratic_ballot", candidates |-> <<>>,
      args |-> [kind |-> "None", credit_budget |-> b, allow_negative |-> n,
                validate |-> v],
      heap |-> <<>>] : b \in BudgetArgs, n \in BOOLEAN, v \in BOOLEAN}
    \cup
    {[method |-> "create_quadratic_ballot", candidates |-> <<>>,
      args |-> [kind |-> "dict", credit_budget |-> b[1], allow_negative |-> b[2],
                validate |-> b[3]],
      heap |-> [caller |-> d]] :
          b \in BudgetArgs \X BOOLEAN \X BOOLEAN, d \in Dicts(VoteArgs)}
    \cup
    {[method |-> "create_score_ballot", candidates |-> <<>>,
      args |-> [kind |-> "None", validate |-> v], heap |-> <<>>] : v \in BOOLEAN}
    \cup
    {[method |-> "create_score_ballot", candidates |-> <<>>,
      args |-> [kind |-> "dict", validate |-> v],
      heap |-> [caller |-> d]] : v \in BOOLEAN, d \in Dicts(ScoreArgs)}
    \cup
    {[method |-> "create_approval_ballot", candidates |-> <<>>,
      args |-> [kind |-> "None"], heap |-> <<>>]}
    \cup
    {[method |-> "create_approval_ballot", candidates |-> <<>>,
      args |-> [kind |-> "list"], heap |-> [caller |-> l]] : l \in Lists}
    \cup
    {[method |-> "create_approval_ballot", candidates |-> <<>>,
      args |-> [kind |-> "set"], heap |-> [caller |-> a]] : a \in SUBSET Ids}
    \cup
    {[method |-> "create_ranked_choice_ballot", candidates |-> <<>>,
      args |-> [kind |-> k, candidates_given |-> FALSE], heap |-> <<>>] :
          k \in {"None"}}
    \cup
    {[method |-> "create_ranked_choice_ballot", candidates |-> cs,
      args |-> [kind |-> "None", candidates_given |-> TRUE], heap |-> <<>>] :
          cs \in CandidateLists}
    \cup
    {[method |-> "create_ranked_choice_ballot", candidates |-> <<>>,
      args |-> [kind |-> "list", candidates_given |-> FALSE],
      heap |-> [caller |-> l]] : l \in Lists}
    \cup
    {[method |-> "create_ranked_choice_ballot", candidates |-> cs,
      args |-> [kind |-> "list", candidates_given |-> TRUE],
      heap |-> [caller |-> l]] : cs \in CandidateLists, l \in Lists}

InitCreate ==
    /\ \E call \in CreateCalls :
          /\ method = call.method
          /\ candidates = call.candidates
          /\ create = [NoCreate EXCEPT !.args = call.args, !.heap = call.heap]
    /\ ballots = <<>>
    /\ pc = "call"
    /\ result = NoResult
    /\ tiebreak_calls = <<>>
    /\ irv = NoIrv
    /\ rp = NoRp

NextCreate ==
    \/ create_approval_ballot
    \/ create_ranked_choice_ballot
    \/ create_score_ballot
    \/ create_quadratic_ballot
    \/ caller_mutates

SpecCreate == InitCreate /\ [][NextCreate]_vars

----------------------------------------------------------------------------
(* Properties of the single-pass tally methods *)

Returned == pc = "returned"

\* the candidates whose tally no other candidate's tally exceeds
HighestTally == {c \in DOMAIN result.vote_counts :
                    \A d \in DOMAIN result.vote_counts :
                        result.vote_counts[d] <= result.vote_counts[c]}

\* C1: in resolve_plurality, resolve_approval, resolve_score and
\* resolve_borda, two or more candidates at the highest tally mean exactly
\* one tiebreak call, on exactly that set, tiebreak_applied and the returned
\* id as single winner; exactly one candidate at the highest tally means no
\* call, tiebreak_applied false and that candidate as sole winner; an empty
\* candidate list means no winner, no call and tiebreak_applied false.
C1_TiebreakContract ==
    (Returned /\ method \in {"plurality", "approval", "score", "borda"}) =>
        /\ Cardinality(HighestTally) >= 2 =>
              /\ Len(tiebreak_calls) = 1
              /\ tiebreak_calls[1].arg = HighestTally
              /\ result.tiebreak_applied
              /\ result.winners = <<tiebreak_calls[1].ret>>
        /\ Cardinality(HighestTally) = 1 =>
              /\ tiebreak_calls = <<>>
              /\ ~result.tiebreak_applied
              /\ Len(result.winners) = 1
              /\ result.winners[1] \in HighestTally
        /\ candidates = <<>> =>
              /\ result.winners = <<>>
              /\ tiebreak_calls = <<>>
              /\ ~result.tiebreak_applied

\* a Borda count that ends in a tie at a non-zero total, settled by tiebreak
C1_Witness ==
    /\ Returned
    /\ method = "borda"
    /\ Cardinality(HighestTally) >= 2
    /\ \E c \in HighestTally : result.vote_counts[c] > 0
    /\ Len(tiebreak_calls) = 1
    /\ result.tiebreak_applied

\* the count/total mapping of each method
TotalsOf(r) ==
    CASE method = "score"     -> r.score_totals
      [] method = "borda"     -> r.point_totals
      [] method = "quadratic" -> r.vote_totals
      [] OTHER                -> r.vote_counts

UnknownChoices == {i \in DOMAIN ballots :
                      ballots[i].choice # None
                      /\ ballots[i].choice \notin Range(candidates)}

\* C6: the five single-pass methods return for every ballot list, unknown
\* ids included, and the keys of vote_counts and of the method's total
\* mapping are exactly the supplied candidate ids; a plurality ballot for an
\* unknown id adds to no count, each count being the number of ballots that
\* name that candidate.
C6_KeysAreCandidates ==
    /\ pc \in {"call", "returned"}
    /\ Returned =>
          /\ DOMAIN result.vote_counts = Range(candidates)
          /\ DOMAIN TotalsOf(result) = Range(candidates)
          /\ method = "plurality" =>
                \A c \in Range(candidates) :
                    result.vote_counts[c] =
                        Cardinality({i \in DOMAIN ballots : ballots[i].choice = c})

\* a plurality result over ballots of which one names an unknown id and
\* another a candidate
C6_Witness ==
    /\ Returned
    /\ method = "plurality"
    /\ UnknownChoices # {}
    /\ \E c \in Range(candidates) : result.vote_counts[c] > 0

\* C7 as stated: abstentions plus the sum of the counts is the number of
\* ballots.
C7_Original ==
    (Returned /\ method = "plurality") =>
        /\ result.total_ballots = Len(ballots)
        /\ result.abstentions
             + SumOver(result.vote_counts, DOMAIN result.vote_counts)
           = result.total_ballots

\* C7: in resolve_plurality abstentions, plus the sum of the counts, plus
\* the number of ballots whose choice is not a candidate id, is
\* total_ballots, the number of ballots passed in.
C7_AbstentionConservation ==
    (Returned /\ method = "plurality") =>
        /\ result.total_ballots = Len(ballots)
        /\ result.abstentions
             + SumOver(result.vote_counts, DOMAIN result.vote_counts)
             + Cardinality(UnknownChoices)
           = result.total_ballots

\* an abstention and a vote for an unknown id in one plurality election
C7_Witness ==
    /\ Returned
    /\ method = "plurality"
    /\ UnknownChoices # {}
    /\ result.abstentions > 0

----------------------------------------------------------------------------
(* Properties of resolve_ranked_pairs *)

\* candidates no locked victory was won against
Sources == {c \in Range(candidates) :
               \A i \in DOMAIN result.locked_victories :
                   result.locked_victories[i][2] # c}

RankedPairsCompleted ==
    /\ Returned
    /\ method = "ranked_pairs"
    /\ Len(candidates) >= 2
    /\ ~result.had_condorcet_winner

\* C2: with two or more candidates and no Condorcet winner, a single
\* candidate without incoming locked edge is the winner, tiebreak is not
\* called and tiebreak_applied is false, skipped victories or not.
C2_SingleSource ==
    (RankedPairsCompleted /\ Cardinality(Sources) = 1) =>
        /\ Len(result.winners) = 1
        /\ result.winners[1] \in Sources
        /\ tiebreak_calls = <<>>
        /\ ~result.tiebreak_applied

\* C3: with two or more candidates and no Condorcet winner, more than one
\* candidate without incoming locked edge means one tiebreak call on
\* exactly the set of sources, its value as winner, and tiebreak_applied.
C3_SeveralSources ==
    (RankedPairsCompleted /\ Cardinality(Sources) > 1) =>
        /\ Len(tiebreak_calls) = 1
        /\ tiebreak_calls[1].arg = Sources
        /\ result.winners = <<tiebreak_calls[1].ret>>
        /\ result.tiebreak_applied

\* candidates whose margin over every other candidate is positive
CondorcetWinners ==
    {x \in Range(candidates) :
        \A y \in Range(candidates) \ {x} :
            rp.matrix[x][y] - rp.matrix[y][x] > 0}

\* C8: with two or more candidates, x is returned as Condorcet winner iff
\* its margin over every other candidate is positive; the result then has
\* winners = [x], had_condorcet_winner, tiebreak_applied false, no locked
\* and no skipped victories, and tiebreak is not called; without such a
\* candidate had_condorcet_winner is false.
C8_CondorcetWinner ==
    (Returned /\ method = "ranked_pairs" /\ Len(candidates) >= 2) =>
        /\ \A x \in Range(candidates) :
              (result.had_condorcet_winner /\ result.winners = <<x>>)
                  <=> x \in CondorcetWinners
        /\ result.had_condorcet_winner =>
              /\ Len(result.winners) = 1
              /\ ~result.tiebreak_applied
              /\ result.locked_victories = <<>>
              /\ result.skipped_victories = <<>>
              /\ tiebreak_calls = <<>>
        /\ CondorcetWinners = {} => ~result.had_condorcet_winner

\* three candidates, the last of the list beating both others
C8_Witness ==
    /\ Returned
    /\ method = "ranked_pairs"
    /\ Len(candidates) = 3
    /\ result.had_condorcet_winner
    /\ result.winners = <<candidates[3]>>
    /\ CondorcetWinners = {candidates[3]}

----------------------------------------------------------------------------
(* Properties of resolve_irv *)

\* the recorded rounds that are iterations of the while loop: all but the
\* final single-candidate tally
LoopRounds ==
    {i \in DOMAIN irv.rounds : ~(irv.exit = "final" /\ i = Len(irv.rounds))}

HasMajority(r) ==
    \E c \in DOMAIN r.vote_counts : 2 * r.vote_counts[c] > r.active_ballots

\* C4: tiebreak is never called on fewer than two candidates; a round
\* entered with a single remaining candidate (a one-candidate election)
\* ends with that candidate as winner, no tiebreak call and
\* tiebreak_applied false, also when no ballot is active.
C4_NoTiebreakOnOne ==
    /\ \A i \in DOMAIN tiebreak_calls : Cardinality(tiebreak_calls[i].arg) >= 2
    /\ (Returned /\ method = "irv" /\ Len(candidates) = 1) =>
          /\ result.winners = <<candidates[1]>>
          /\ tiebreak_calls = <<>>
          /\ ~result.tiebreak_applied

\* C5: resolve_irv does not raise, whatever ids the rankings hold; an id
\* outside the candidate list is never a key of a round's vote_counts nor
\* of the result's.
C5_NeverRaises ==
    /\ pc # "raised"
    /\ \A i \in DOMAIN irv.rounds :
          DOMAIN irv.rounds[i].vote_counts \subseteq Range(candidates)
    /\ (Returned /\ method = "irv") =>
          DOMAIN result.vote_counts \subseteq Range(candidates)

\* C9: a round of the loop ends the election with a majority winner iff
\* some remaining candidate's tally exceeds half of the round's active
\* ballots; that candidate is then the sole winner, tiebreak_applied is
\* false, the round's eliminated list is empty and winning_round is its
\* number.  Exactly half is no majority.
C9_MajorityRound ==
    /\ \A i \in LoopRounds :
          (irv.exit = "majority" /\ i = Len(irv.rounds))
              <=> HasMajority(irv.rounds[i])
    /\ irv.exit = "majority" =>
          LET r == irv.rounds[Len(irv.rounds)]
          IN /\ Returned
             /\ result.rounds = irv.rounds
             /\ Len(result.winners) = 1
             /\ result.winners[1] \in DOMAIN r.vote_counts
             /\ 2 * r.vote_counts[result.winners[1]] > r.active_ballots
             /\ ~result.tiebreak_applied
             /\ tiebreak_calls = <<>>
             /\ r.eliminated = {}
             /\ result.winning_round = r.round_number

\* three candidates, one of them with two of the three active ballots
C9_Witness ==
    /\ irv.exit = "majority"
    /\ Len(candidates) = 3
    /\ irv.rounds[Len(irv.rounds)].active_ballots = 3
    /\ result.vote_counts[result.winners[1]] = 2

AllTied(r) ==
    \A c, d \in DOMAIN r.vote_counts : r.vote_counts[c] = r.vote_counts[d]

\* C10: a round of the loop without majority winner whose two or more
\* remaining candidates all have the same tally calls tiebreak once, on
\* the full remaining set; the returned candidate wins, all others are that
\* round's eliminated with elimination_was_tiebreak, one final round
\* restricted to the winner follows, and tiebreak_applied is true.
C10_AllTiedRound ==
    \A i \in LoopRounds :
        LET r == irv.rounds[i]
        IN (/\ ~HasMajority(r)
            /\ Cardinality(DOMAIN r.vote_counts) >= 2
            /\ AllTied(r)) =>
               /\ Returned
               /\ irv.exit = "final"
               /\ i = Len(irv.rounds) - 1
               /\ result.rounds = irv.rounds
               /\ Len(tiebreak_calls) = 1
               /\ tiebreak_calls[1].arg = DOMAIN r.vote_counts
               /\ result.winners = <<tiebreak_calls[1].ret>>
               /\ r.eliminated = DOMAIN r.vote_counts \ {tiebreak_calls[1].ret}
               /\ r.elimination_was_tiebreak
               /\ DOMAIN irv.rounds[i + 1].vote_counts = {tiebreak_calls[1].ret}
               /\ irv.rounds[i + 1].eliminated = {}
               /\ result.winning_round = irv.rounds[i + 1].round_number
               /\ result.tiebreak_applied

\* three candidates with one active ballot each: all tied in round one
C10_Witness ==
    /\ Returned
    /\ irv.exit = "final"
    /\ Len(irv.rounds) = 2
    /\ Cardinality(DOMAIN irv.rounds[1].vote_counts) = 3
    /\ \A c \in DOMAIN irv.rounds[1].vote_counts : irv.rounds[1].vote_counts[c] = 1
    /\ result.tiebreak_applied

----------------------------------------------------------------------------
(* Properties of the round log of resolve_irv *)

\* C11: in every result of resolve_irv the i-th recorded round carries round
\* number i (1-based, no gaps, no repeats); a result with a winner has
\* winning_round equal to the round number of the last recorded round, and a
\* result without a winner has winning_round 0.
C11_RoundLog ==
    (Returned /\ method = "irv") =>
        /\ \A i \in DOMAIN result.rounds : result.rounds[i].round_number = i
        /\ result.winners # <<>> =>
              /\ result.rounds # <<>>
              /\ result.winning_round =
                     result.rounds[Len(result.rounds)].round_number
        /\ result.winners = <<>> => result.winning_round = 0

\* a result whose log holds two elimination rounds and the final tally round
C11_Witness ==
    /\ Returned
    /\ method = "irv"
    /\ irv.exit = "final"
    /\ Len(result.rounds) = 3
    /\ result.winning_round = 3

----------------------------------------------------------------------------
(* Properties of resolve_quadratic *)

\* some non-abstaining ballot holds an allocation for a supplied candidate
RecognizedAllocation ==
    \E i \in DOMAIN ballots :
        DOMAIN ballots[i].allocations \cap Range(candidates) # {}

\* C12: resolve_quadratic returns no winner, tiebreak_applied false and no
\* tiebreak call iff no non-abstaining ballot holds an allocation for a
\* recognized candidate; otherwise it returns exactly one winner, whose net
\* total is the maximum net total, and tiebreak is called exactly once, on
\* the set of candidates at the maximum, iff more than one is at the maximum.
C12_QuadraticWinner ==
    (Returned /\ method = "quadratic") =>
        /\ (/\ result.winners = <<>>
            /\ ~result.tiebreak_applied
            /\ tiebreak_calls = <<>>) <=> ~RecognizedAllocation
        /\ RecognizedAllocation =>
              /\ Len(result.winners) = 1
              /\ result.winners[1] \in HighestTally
              /\ result.vote_totals = result.vote_counts
              /\ IF Cardinality(HighestTally) > 1
                 THEN /\ Len(tiebreak_calls) = 1
                      /\ tiebreak_calls[1].arg = HighestTally
                      /\ tiebreak_calls[1].ret = result.winners[1]
                 ELSE tiebreak_calls = <<>>

\* two candidates share the maximum net total 2 and tiebreak picks one
C12_Witness ==
    /\ Returned
    /\ method = "quadratic"
    /\ RecognizedAllocation
    /\ Cardinality(HighestTally) = 2
    /\ Len(tiebreak_calls) = 1
    /\ result.vote_totals[result.winners[1]] = 2

\* only unknown ids receive allocations: no winner although ballots voted
C12_WitnessUnknownOnly ==
    /\ Returned
    /\ method = "quadratic"
    /\ candidates # <<>>
    /\ \E i \in DOMAIN ballots : ~is_quadratic_abstention(ballots[i])
    /\ ~RecognizedAllocation
    /\ result.winners = <<>>

----------------------------------------------------------------------------
(* Determinism of resolve_ranked_pairs *)

\* a stateless tie-break function: the least id of its argument
LeastId(S) == CHOOSE x \in S : \A y \in S : x <= y

TiebreakIsLeastId ==
    \A i \in DOMAIN tiebreak_calls :
        tiebreak_calls[i].ret = LeastId(tiebreak_calls[i].arg)

\* the run on the same candidates and ballots that processes the victories
\* in one fixed order _sort_victories can return, under the tie-break LeastId
ReferenceRun ==
    LET sorted_victories ==
            CHOOSE sv \in _sort_victories(
                              _get_all_victories(candidates, rp.matrix)) : TRUE
        applied == _apply_ranked_pairs(candidates, sorted_victories)
        sources == RankedPairsSources(candidates, applied.graph)
    IN [winners |-> <<LeastId(IF Len(sources) = 0 THEN Range(candidates)
                              ELSE Range(sources))>>,
        locked_victories |-> applied.locked,
        skipped_victories |-> applied.skipped]

\* C13: two runs of resolve_ranked_pairs on the same candidate list and
\* ballot list with the same stateless tie-break return the same winners,
\* locked_victories and skipped_victories, also when several victories have
\* equal margin and equal winning votes: every run under the tie-break
\* LeastId returns what the reference run under LeastId returns.
C13_Deterministic ==
    (Returned /\ method = "ranked_pairs" /\ rp.exit = "ranked_pairs"
        /\ TiebreakIsLeastId) =>
        /\ result.winners = ReferenceRun.winners
        /\ result.locked_victories = ReferenceRun.locked_victories
        /\ result.skipped_victories = ReferenceRun.skipped_victories

\* the same for the winner alone
C13_SameWinner ==
    (Returned /\ method = "ranked_pairs" /\ rp.exit = "ranked_pairs"
        /\ TiebreakIsLeastId) =>
        result.winners = ReferenceRun.winners

----------------------------------------------------------------------------
(* Result fields of resolve_ranked_pairs *)

\* the number of opponents c beats by a positive margin in the matrix built
\* from the call's ballots
WinsOf(c) ==
    LET matrix == _build_pairwise_matrix(candidates, ballots)
    IN Cardinality({o \in Range(candidates) \ {c} :
                       matrix[c][o] - matrix[o][c] > 0})

\* C14: for every non-empty candidate list, a single candidate included,
\* each vote_counts[c] of the result of resolve_ranked_pairs is the number of
\* other candidates o with matrix[c][o] - matrix[o][c] > 0.
C14_VoteCountsArePairwiseWins ==
    (Returned /\ method = "ranked_pairs" /\ candidates # <<>>) =>
        /\ DOMAIN result.vote_counts = Range(candidates)
        /\ \A c \in Range(candidates) : result.vote_counts[c] = WinsOf(c)

\* the same for two or more candidates only
C14_TwoOrMore ==
    (Returned /\ method = "ranked_pairs" /\ Len(candidates) >= 2) =>
        /\ DOMAIN result.vote_counts = Range(candidates)
        /\ \A c \in Range(candidates) : result.vote_counts[c] = WinsOf(c)

\* what the same call returns with include_pairwise_matrix = True, under the
\* same processing order of the victories (rp.sorted_victories) and the same
\* value of tiebreak (the returned winner)
ResultWithMatrixIncluded ==
    LET abstentions == RankedAbstentions(ballots)
        matrix == _build_pairwise_matrix(candidates, ballots)
        condorcet_winner == _find_condorcet_winner(candidates, matrix)
        applied == _apply_ranked_pairs(candidates, rp.sorted_victories)
        sources == RankedPairsSources(candidates, applied.graph)
        winner == IF Len(sources) = 1 THEN sources[1]
                  ELSE IF Len(sources) = 0 THEN None
                  ELSE result.winners[1]
    IN IF Len(candidates) = 0 THEN
           RankedPairsResult(<<>>, <<>>, abstentions, FALSE, <<>>, FALSE, <<>>, <<>>)
       ELSE IF Len(candidates) = 1 THEN
           RankedPairsResult(<<candidates[1]>>,
                             [c \in {candidates[1]} |-> Len(ballots) - abstentions],
                             abstentions, FALSE,
                             [c \in {candidates[1]} |-> <<>>],
                             TRUE, <<>>, <<>>)
       ELSE IF condorcet_winner # None THEN
           RankedPairsResult(<<condorcet_winner>>,
                             PairwiseWins(candidates, matrix),
                             abstentions, FALSE, matrix, TRUE, <<>>, <<>>)
       ELSE
           RankedPairsResult(<<IF winner = None THEN result.winners[1] ELSE winner>>,
                             PairwiseWins(candidates, matrix),
                             abstentions,
                             RankedPairsTiebreakApplied(winner, applied.skipped),
                             matrix, FALSE, applied.locked, applied.skipped)

WithoutMatrix(r) == [r EXCEPT !.pairwise_matrix = <<>>]

\* C15: with include_pairwise_matrix = false the pairwise_matrix of the
\* result of resolve_ranked_pairs is empty for zero, one or more candidates,
\* and every other field equals what the same call returns with
\* include_pairwise_matrix = true.
C15_MatrixOmitted ==
    (Returned /\ method = "ranked_pairs" /\ ~rp.include_pairwise_matrix) =>
        /\ result.pairwise_matrix = <<>>
        /\ WithoutMatrix(result) = WithoutMatrix(ResultWithMatrixIncluded)

\* the same for every candidate count but one
C15_NotOneCandidate ==
    (Returned /\ method = "ranked_pairs" /\ ~rp.include_pairwise_matrix
        /\ Len(candidates) # 1) =>
        /\ result.pairwise_matrix = <<>>
        /\ WithoutMatrix(result) = WithoutMatrix(ResultWithMatrixIncluded)

\* with the flag set the result carries the matrix built from the ballots
C15_MatrixIncluded ==
    (Returned /\ method = "ranked_pairs" /\ rp.include_pairwise_matrix) =>
        result = ResultWithMatrixIncluded

----------------------------------------------------------------------------
(* Properties of resolve_borda *)

\* the ballots whose ranking is a complete permutation of the candidate ids
CompleteBallots ==
    {i \in DOMAIN ballots :
        /\ ~ranked_is_abstention(ballots[i])
        /\ Range(ballots[i].ranking) = Range(candidates)}

AbstainingBallots == {i \in DOMAIN ballots : ranked_is_abstention(ballots[i])}

\* C16: in resolve_borda with n candidates a non-abstaining ballot whose
\* ranking is a complete permutation of the candidate ids awards (n-1)-p
\* points to the candidate at 0-indexed position p, n*(n-1)/2 points in
\* all, and abstaining ballots add nothing: when every ballot is complete or
\* abstains, each point total is the sum of (n-1)-p over the complete
\* ballots and the totals add up to n*(n-1)/2 per complete ballot.
C16_BordaPoints ==
    (Returned /\ method = "borda"
        /\ CompleteBallots \cup AbstainingBallots = DOMAIN ballots) =>
        LET n == Len(candidates)
            awarded(c) == [i \in CompleteBallots |->
                              (n - 1) - (IndexOf(ballots[i].ranking, c) - 1)]
        IN /\ \A c \in Range(candidates) :
                 result.point_totals[c] = SumOver(awarded(c), CompleteBallots)
           /\ 2 * SumOver(result.point_totals, DOMAIN result.point_totals)
                 = Cardinality(CompleteBallots) * n * (n - 1)
           /\ result.max_points_per_ballot = (IF n > 0 THEN n - 1 ELSE 0)

\* three candidates, one complete ballot and one abstention: 2 + 1 + 0 points
C16_Witness ==
    /\ Returned
    /\ method = "borda"
    /\ Len(candidates) = 3
    /\ Cardinality(CompleteBallots) = 1
    /\ Cardinality(AbstainingBallots) = 1
    /\ SumOver(result.point_totals, DOMAIN result.point_totals) = 3
    /\ \E c \in Range(candidates) : result.point_totals[c] = 2

----------------------------------------------------------------------------
(* Properties of the ballot constructors *)

Constructed == pc = "returned"
Failed == pc = "raised"

\* every vote is non-zero and, unless allowed, not negative
PermittedAllocations ==
    \A c \in DOMAIN create.heap[CallerRef] :
        /\ create.heap[CallerRef][c] # 0
        /\ create.args.allow_negative \/ create.heap[CallerRef][c] > 0

\* C17: create_quadratic_ballot with validation enabled, on allocations of
\* non-zero integers permitted by allow_negative, fails with
\* InvalidQuadraticBallotError iff the sum of v*v is strictly greater than
\* credit_budget; quadratic_total_cost of every constructed ballot is that
\* sum of squares; with validate = false construction never fails.
C17_BudgetValidation ==
    (method = "create_quadratic_ballot" /\ (Constructed \/ Failed)) =>
        /\ create.args.kind = "dict" =>
              /\ (create.args.validate /\ PermittedAllocations) =>
                    /\ Failed <=> SumOfSquares(create.heap[CallerRef])
                                      > create.args.credit_budget
                    /\ Failed => create.error = "InvalidQuadraticBallotError"
              /\ Constructed =>
                    quadratic_total_cost(create.heap, create.ballot)
                        = SumOfSquares(create.heap[CallerRef])
        /\ create.args.kind = "None" =>
              /\ Constructed
              /\ quadratic_total_cost(create.heap, create.ballot) = 0
        /\ ~create.args.validate => Constructed

\* a validated ballot on two candidates whose cost 1 + 4 is the whole budget
C17_Witness ==
    /\ method = "create_quadratic_ballot"
    /\ Constructed
    /\ create.args.kind = "dict"
    /\ create.args.validate
    /\ Cardinality(DOMAIN create.heap[CallerRef]) = 2
    /\ create.args.credit_budget = 5
    /\ quadratic_total_cost(create.heap, create.ballot) = 5

\* C18: create_ranked_choice_ballot with a non-None ranking and a supplied
\* candidate set succeeds iff the ranking has no duplicate and its set of ids
\* is the candidate set; otherwise it fails with InvalidRankingError and
\* returns no ballot, reporting duplicates first, then missing and extra
\* together, then missing only, then extra only. With ranking = None an
\* abstention ballot is always returned.
C18_RankingValidation ==
    (method = "create_ranked_choice_ballot" /\ (Constructed \/ Failed)) =>
        /\ (create.args.kind = "list" /\ create.args.candidates_given) =>
              LET ranking == create.heap[CallerRef]
                  duplicates == \E i, j \in DOMAIN ranking :
                                    i # j /\ ranking[i] = ranking[j]
                  missing == Range(candidates) \ Range(ranking)
                  extra == Range(ranking) \ Range(candidates)
              IN /\ Constructed <=>
                       (~duplicates /\ Range(ranking) = Range(candidates))
                 /\ Failed =>
                       /\ create.error = "InvalidRankingError"
                       /\ create.ballot = <<>>
                       /\ create.message =
                             (IF duplicates THEN "duplicates"
                              ELSE IF missing # {} /\ extra # {}
                              THEN "missing_and_extra"
                              ELSE IF missing # {} THEN "missing"
                              ELSE "extra")
        /\ create.args.kind = "None" =>
              /\ Constructed
              /\ Deref(create.heap, create.ballot)
                    = [ranking |-> <<>>, rank_lookup |-> <<>>]

\* a ranking with a duplicate that also misses a candidate and names an
\* unknown one is rejected for the duplicate
C18_Witness ==
    /\ method = "create_ranked_choice_ballot"
    /\ Failed
    /\ create.args.kind = "list"
    /\ create.args.candidates_given
    /\ Len(create.heap[CallerRef]) > Cardinality(Range(create.heap[CallerRef]))
    /\ Range(candidates) \ Range(create.heap[CallerRef]) # {}
    /\ Range(create.heap[CallerRef]) \ Range(candidates) # {}
    /\ create.message = "duplicates"

\* C19: every ballot returned by create_ranked_choice_ballot has
\* rank_lookup[ranking[i]] equal to the 1-based rank of position i, the keys
\* of rank_lookup are the ids of ranking, and prefers(ballot, a, b) is true
\* iff both are ranked and a stands strictly before b in ranking.
C19_DualRepresentation ==
    (method = "create_ranked_choice_ballot" /\ Constructed) =>
        LET ballot == Deref(create.heap, create.ballot)
        IN /\ \A i \in DOMAIN ballot.ranking :
                 ballot.rank_lookup[ballot.ranking[i]] = i
           /\ DOMAIN ballot.rank_lookup = Range(ballot.ranking)
           /\ \A a, b \in Ids :
                 (prefers(ballot, a, b) = "True") <=>
                     \E i, j \in DOMAIN ballot.ranking :
                         /\ i < j
                         /\ ballot.ranking[i] = a
                         /\ ballot.ranking[j] = b

\* a returned ballot that ranks every id
C19_Witness ==
    /\ method = "create_ranked_choice_ballot"
    /\ Constructed
    /\ Len(Deref(create.heap, create.ballot).ranking) = MaxIds
    /\ prefers(Deref(create.heap, create.ballot), 2, 1) = "True"

\* C20: for every constructor that stores a caller-supplied collection,
\* mutating the caller's collection after construction leaves the
\* collections the ballot stores unchanged.
C20_DefensiveCopies ==
    [][(pc = "returned" /\ pc' = "mutated") =>
          Deref(create.heap, create.ballot) = Deref(create.heap', create.ballot')]_vars

\* the same for every call but create_approval_ballot given a set
C20_ExceptApprovalSet ==
    [][(pc = "returned" /\ pc' = "mutated"
            /\ ~(method = "create_approval_ballot" /\ create.args.kind = "set")) =>
          Deref(create.heap, create.ballot) = Deref(create.heap', create.ballot')]_vars

----------------------------------------------------------------------------
(* Properties of the pairwise matrix and of the locking loop *)

\* ballot ranks both ids, a strictly before b, read off the ranking list
RanksBefore(ballot, a, b) ==
    \E j \in DOMAIN ballot.ranking :
        /\ ballot.ranking[j] = b
        /\ \E i \in 1..(j - 1) : ballot.ranking[i] = a

NonAbstaining == {k \in DOMAIN ballots : ~ranked_is_abstention(ballots[k])}

\* every non-abstaining ballot ranks every candidate
BallotsComplete ==
    \A k \in NonAbstaining : Range(candidates) \subseteq Range(ballots[k].ranking)

MatrixBuilt == pc = "returned" /\ rp.exit \in {"condorcet", "ranked_pairs"}

\* C21: for every ordered pair of distinct candidates (a, b) the matrix built
\* by resolve_ranked_pairs has matrix[a][b] equal to the number of
\* non-abstaining ballots that rank both, a strictly before b; the matrix
\* handed back in the result is that matrix; and when every non-abstaining
\* ballot ranks every candidate, matrix[a][b] + matrix[b][a] is the number of
\* non-abstaining ballots.
C21_PairwiseMatrix ==
    MatrixBuilt =>
        /\ DOMAIN rp.matrix = Range(candidates)
        /\ \A cast \in {NonAbstaining} :
           \A complete \in {BallotsComplete} :
           \A a \in Range(candidates) :
              /\ DOMAIN rp.matrix[a] = Range(candidates) \ {a}
              /\ \A b \in Range(candidates) \ {a} :
                    /\ rp.matrix[a][b] =
                         Cardinality({k \in cast : RanksBefore(ballots[k], a, b)})
                    /\ complete =>
                         rp.matrix[a][b] + rp.matrix[b][a] = Cardinality(cast)
        /\ rp.include_pairwise_matrix => result.pairwise_matrix = rp.matrix

\* a matrix with a non-zero cell, built from a list that holds an abstention
\* and a ballot ranking only part of the candidates
C21_Witness ==
    /\ MatrixBuilt
    /\ \E k \in DOMAIN ballots : ranked_is_abstention(ballots[k])
    /\ ~BallotsComplete
    /\ \E a, b \in Range(candidates) : a # b /\ rp.matrix[a][b] > 0

\* the sum over complete ballots, on a list with an abstention
C21_WitnessComplete ==
    /\ MatrixBuilt
    /\ BallotsComplete
    /\ Cardinality(NonAbstaining) >= 2
    /\ Cardinality(NonAbstaining) < Len(ballots)
    /\ \E a, b \in Range(candidates) :
          a # b /\ rp.matrix[a][b] > 0 /\ rp.matrix[b][a] > 0

RankedPairsRan == pc = "returned" /\ rp.exit = "ranked_pairs"

\* a path of one to n edges of E from x to y
RECURSIVE Connects(_, _, _, _)
Connects(E, x, y, n) ==
    \/ <<x, y>> \in E
    \/ /\ n > 1
       /\ \E e \in E : e[1] = x /\ Connects(E, e[2], y, n - 1)

\* a path of E from x to y: no shortest path has more edges than E
HasPath(E, x, y) == Connects(E, x, y, Cardinality(E))

Acyclic(E) == \A e \in E : ~HasPath(E, e[2], e[1])

\* the victory without its winning-votes entry, as locked and skipped hold it
Short(v) == <<v[1], v[2], v[3]>>

\* the edges among the first k processed victories that are in locked
LockedAmong(k, locked) ==
    {<<rp.sorted_victories[i][1], rp.sorted_victories[i][2]>> :
        i \in {j \in 1..k : Short(rp.sorted_victories[j]) \in locked}}

NonZeroPairs ==
    {p \in Range(candidates) \X Range(candidates) :
        p[1] < p[2] /\ rp.matrix[p[1]][p[2]] # rp.matrix[p[2]][p[1]]}

\* C22: during Ranked-Pairs completion the locked graph is acyclic after
\* every processed victory (edges are only added, so every graph the loop
\* passes through is a subgraph of the last one); a victory is skipped iff, when it is processed,
\* its loser reaches its winner through the edges locked before it, and is
\* locked otherwise; every positive-margin victory is in exactly one of
\* locked_victories and skipped_victories, whose combined length is the
\* number of unordered candidate pairs with non-zero margin.
C22_LockingLoop ==
    RankedPairsRan =>
        /\ \A locked \in {Range(rp.locked)} :
           \A skipped \in {Range(rp.skipped)} :
              /\ Acyclic(LockedAmong(Len(rp.sorted_victories), locked))
              /\ \A k \in 1..Len(rp.sorted_victories) :
                    \A before \in {LockedAmong(k - 1, locked)} :
                      LET v == rp.sorted_victories[k]
                      IN /\ Short(v) \in skipped <=> HasPath(before, v[2], v[1])
                         /\ Short(v) \in locked <=> Short(v) \notin skipped
              /\ locked \cup skipped
                    = {Short(v) : v \in _get_all_victories(candidates, rp.matrix)}
              /\ rp.graph =
                    [c \in Range(candidates) |->
                        {e[2] : e \in {d \in LockedAmong(Len(rp.sorted_victories),
                                                         locked) : d[1] = c}}]
        /\ Len(rp.locked) + Len(rp.skipped) = Cardinality(NonZeroPairs)
        /\ result.locked_victories = rp.locked
        /\ result.skipped_victories = rp.skipped

\* a completion that locked two victories and skipped one
C22_Witness ==
    /\ RankedPairsRan
    /\ Len(rp.locked) >= 2
    /\ Len(rp.skipped) >= 1

\* the place of a locked or skipped victory in the processing order
PlaceOf(short) ==
    CHOOSE i \in DOMAIN rp.sorted_victories : Short(rp.sorted_victories[i]) = short

\* list holds its victories in the order in which they were processed
InProcessingOrder(list) ==
    \A i, j \in DOMAIN list : i < j => PlaceOf(list[i]) < PlaceOf(list[j])

\* C23: Ranked-Pairs processes the victories by non-increasing margin and,
\* at equal margin, by non-increasing winning votes; locked_victories and
\* skipped_victories keep the processing order, so no victory is locked or
\* skipped after one with a smaller margin (or equal margin and fewer
\* winning votes) and the margins of locked_victories are non-increasing.
C23_ProcessingOrder ==
    RankedPairsRan =>
        /\ \A i, j \in DOMAIN rp.sorted_victories :
              i < j =>
                LET u == rp.sorted_victories[i]
                    v == rp.sorted_victories[j]
                IN /\ u[3] >= v[3]
                   /\ u[3] = v[3] => u[4] >= v[4]
        /\ InProcessingOrder(result.locked_victories)
        /\ InProcessingOrder(result.skipped_victories)
        /\ \A i, j \in DOMAIN result.locked_victories :
              i < j => result.locked_victories[i][3] >= result.locked_victories[j][3]

\* two victories of equal margin and different winning votes were processed
C23_Witness ==
    /\ RankedPairsRan
    /\ \E i, j \in DOMAIN rp.sorted_victories :
          /\ rp.sorted_victories[i][3] = rp.sorted_victories[j][3]
          /\ rp.sorted_victories[i][4] > rp.sorted_victories[j][4]

\* two locked victories of different margins
C23_WitnessMargins ==
    /\ RankedPairsRan
    /\ \E i, j \in DOMAIN result.locked_victories :
          result.locked_victories[i][3] > result.locked_victories[j][3]

----------------------------------------------------------------------------
(* Properties of the elimination rounds of resolve_irv *)

\* the candidates tied at the minimum tally of round r
TiedMinimum(r) ==
    {c \in DOMAIN r.vote_counts :
        \A d \in DOMAIN r.vote_counts : r.vote_counts[c] <= r.vote_counts[d]}

\* the rounds of the loop that found no majority winner
EliminationRounds == {i \in LoopRounds : ~HasMajority(irv.rounds[i])}

\* C24: in a round of resolve_irv without majority winner whose tied-minimum
\* set is a proper subset of the remaining candidates, exactly the candidates
\* of that set are eliminated in that round, the round records
\* elimination_was_tiebreak = false, and tiebreak is not called: there are
\* as many tiebreak calls as rounds recorded with elimination_was_tiebreak.
C24_BulkElimination ==
    /\ \A i \in EliminationRounds :
          LET r == irv.rounds[i]
          IN TiedMinimum(r) # DOMAIN r.vote_counts =>
                /\ r.eliminated = TiedMinimum(r)
                /\ ~r.elimination_was_tiebreak
    /\ Len(tiebreak_calls)
          = Cardinality({i \in DOMAIN irv.rounds :
                            irv.rounds[i].elimination_was_tiebreak})

\* a round without majority that eliminated two tied candidates at once
\* and left a third
C24_Witness ==
    /\ Returned
    /\ \E i \in EliminationRounds :
          /\ Cardinality(irv.rounds[i].eliminated) = 2
          /\ Cardinality(DOMAIN irv.rounds[i].vote_counts) = 3
          /\ ~irv.rounds[i].elimination_was_tiebreak
    /\ tiebreak_calls = <<>>

\* every ballot ranks only ids of the candidate list
KnownIdsOnly ==
    \A k \in DOMAIN ballots : Range(ballots[k].ranking) \subseteq Range(candidates)

\* the candidates eliminated in the rounds before round i
EliminatedBefore(i) == UNION {irv.rounds[j].eliminated : j \in 1..(i - 1)}

\* c is the highest-ranked id of the ballot outside gone
IsTopChoice(ballot, c, gone) ==
    \E i \in DOMAIN ballot.ranking :
        /\ ballot.ranking[i] = c
        /\ c \notin gone
        /\ \A j \in 1..(i - 1) : ballot.ranking[j] \in gone

Cast == {k \in DOMAIN ballots : Len(ballots[k].ranking) > 0}

\* C25: with ballots that rank only known candidates, every round recorded
\* by resolve_irv has active_ballots + exhausted_ballots equal to the number
\* of non-abstaining ballots, each candidate's tally equal to the number of
\* ballots whose highest-ranked not yet eliminated candidate it is, the
\* tallies summing to active_ballots and the ballots with no such candidate
\* counted as exhausted; the result's abstentions is the number of ballots
\* with an empty ranking and total_ballots the length of the ballot list.
C25_RoundConservation ==
    KnownIdsOnly =>
        /\ pc # "raised"
        /\ \A cast \in {Cast} :
           \A i \in DOMAIN irv.rounds :
           \A gone \in {EliminatedBefore(i)} :
              LET r == irv.rounds[i]
              IN /\ r.active_ballots + r.exhausted_ballots = Cardinality(cast)
                 /\ \A c \in DOMAIN r.vote_counts :
                       r.vote_counts[c] =
                         Cardinality({k \in cast : IsTopChoice(ballots[k], c, gone)})
                 /\ SumOver(r.vote_counts, DOMAIN r.vote_counts) = r.active_ballots
                 /\ r.exhausted_ballots =
                       Cardinality({k \in cast : Range(ballots[k].ranking) \subseteq gone})
        /\ (Returned /\ method = "irv") =>
              /\ result.rounds = irv.rounds
              /\ result.total_ballots = Len(ballots)
              /\ result.abstentions = Len(ballots) - Cardinality(Cast)
              /\ \A i \in DOMAIN result.rounds :
                    result.rounds[i].active_ballots + result.rounds[i].exhausted_ballots
                        = result.total_ballots - result.abstentions

\* a result whose list holds an abstention and whose last round has an
\* exhausted ballot and a ballot counted for a lower choice
C25_Witness ==
    /\ Returned
    /\ KnownIdsOnly
    /\ Cardinality(Cast) < Len(ballots)
    /\ Len(irv.rounds) >= 2
    /\ LET i == Len(irv.rounds)
       IN /\ irv.rounds[i].exhausted_ballots >= 1
          /\ \E k \in Cast : \E c \in DOMAIN irv.rounds[i].vote_counts :
                /\ IsTopChoice(ballots[k], c, EliminatedBefore(i))
                /\ ballots[k].ranking[1] # c

\* C26: with ballots over known candidates (and a tiebreak that returns a
\* member of its argument) resolve_irv returns; every round that does not
\* end the call strictly shrinks remaining_candidates, at most n + 1 rounds
\* are recorded for n candidates, zero candidates give winners = [] and an
\* empty round log, and an elimination that leaves no candidate gives
\* winners = [].
C26_Termination ==
    /\ KnownIdsOnly => <>(pc = "returned")
    /\ [][(pc = "irv_loop" /\ pc' = "irv_loop") =>
            /\ irv'.remaining_candidates \subseteq irv.remaining_candidates
            /\ irv'.remaining_candidates # irv.remaining_candidates]_vars
    /\ [](Len(irv.rounds) <= Len(candidates) + 1)
    /\ []((Returned /\ Len(candidates) = 0) =>
            result.winners = <<>> /\ result.rounds = <<>>)
    /\ []((Returned /\ irv.exit = "all_eliminated") => result.winners = <<>>)

\* a call with three candidates that returned after two elimination rounds
\* and the final round
C26_Witness ==
    /\ Returned
    /\ KnownIdsOnly
    /\ Len(candidates) = 3
    /\ Len(result.rounds) = 3
    /\ irv.rounds[1].eliminated # {}
    /\ irv.rounds[2].eliminated # {}

\* a call without candidates that returned
C26_WitnessNoCandidates ==
    /\ Returned
    /\ method = "irv"
    /\ Len(candidates) = 0
    /\ Len(ballots) > 0

----------------------------------------------------------------------------
(* Properties of the winner of the Ranked-Pairs completion *)

\* the candidates that are the loser of no locked victory
WithoutIncoming ==
    {c \in Range(candidates) :
        \A i \in DOMAIN rp.locked : rp.locked[i][2] # c}

\* C27: after Ranked-Pairs has processed all victories of a non-empty
\* candidate list, some candidate has no incoming locked edge; so
\* _apply_ranked_pairs does not return None and resolve_ranked_pairs makes
\* no fallback tiebreak call: tiebreak is called at most once, and then on
\* the candidates without incoming edge, which are two or more.
C27_SourceExists ==
    RankedPairsRan =>
        /\ WithoutIncoming # {}
        /\ rp.winner # None
        /\ rp.winner \in WithoutIncoming
        /\ result.winners = <<rp.winner>>
        /\ Len(tiebreak_calls) <= 1
        /\ \A i \in DOMAIN tiebreak_calls :
              /\ tiebreak_calls[i].arg = WithoutIncoming
              /\ Cardinality(WithoutIncoming) >= 2

\* a completion that skipped a victory of a cycle and was left with a
\* single candidate without incoming edge
C27_Witness ==
    /\ RankedPairsRan
    /\ Len(rp.skipped) >= 1
    /\ Cardinality(WithoutIncoming) = 1
    /\ tiebreak_calls = <<>>

\* the rounds recorded with elimination_was_tiebreak
TiebreakRounds ==
    {i \in DOMAIN irv.rounds : irv.rounds[i].elimination_was_tiebreak}

----------------------------------------------------------------------------
(* Properties of the point totals of resolve_borda *)

BordaReturned == Returned /\ method = "borda"

\* C29: in every result of resolve_borda with n candidates each candidate's
\* point total lies between 0 and (n-1) * (total_ballots - abstentions),
\* also for ballots whose ranking is longer than n or holds unknown ids.
C29_PointsInRange ==
    BordaReturned =>
        \A c \in DOMAIN result.point_totals :
            /\ result.point_totals[c] >= 0
            /\ result.point_totals[c]
                  <= (Len(candidates) - 1)
                        * (result.total_ballots - result.abstentions)

\* the upper limit alone holds for every ballot list
C29_UpperLimit ==
    BordaReturned =>
        \A c \in DOMAIN result.point_totals :
            result.point_totals[c]
                <= (Len(candidates) - 1) * (result.total_ballots - result.abstentions)

\* the range holds when no ranking is longer than the candidate list
C29_ShortRankings ==
    (BordaReturned
        /\ \A k \in DOMAIN ballots : Len(ballots[k].ranking) <= Len(candidates)) =>
        \A c \in DOMAIN result.point_totals : result.point_totals[c] >= 0

----------------------------------------------------------------------------
(* Properties of the result of resolve_irv *)

IrvReturned == Returned /\ method = "irv"

\* the candidates eliminated in the rounds of the result before round i
ResultEliminatedBefore(i) ==
    UNION {result.rounds[j].eliminated : j \in 1..(i - 1)}

\* C30: a result of resolve_irv has at most one winner; the winner is a
\* candidate of the list and is in no round's eliminated list; the
\* eliminated lists of different rounds are pairwise disjoint; and the keys
\* of each round's tally are exactly the candidates not eliminated in an
\* earlier round.
C30_ResultShape ==
    IrvReturned =>
        /\ Len(result.winners) <= 1
        /\ \A w \in Range(result.winners) :
              /\ w \in Range(candidates)
              /\ \A i \in DOMAIN result.rounds : w \notin result.rounds[i].eliminated
        /\ \A i, j \in DOMAIN result.rounds :
              i # j => result.rounds[i].eliminated \cap result.rounds[j].eliminated = {}
        /\ \A i \in DOMAIN result.rounds :
              DOMAIN result.rounds[i].vote_counts
                  = Range(candidates) \ ResultEliminatedBefore(i)

\* a result of three rounds whose first two rounds eliminated one candidate
\* each and whose winner is the last candidate of the list
C30_Witness ==
    /\ IrvReturned
    /\ Len(result.rounds) = 3
    /\ Cardinality(result.rounds[1].eliminated) = 1
    /\ Cardinality(result.rounds[2].eliminated) = 1
    /\ result.winners = <<candidates[Len(candidates)]>>

====
